------------------------------- MODULE UTimer -------------------------------
(***************************************************************************)
(* The timer actor, u_timer.c.                                             *)
(*                                                                         *)
(* Clients on any thread post START and STOP requests to the actor         *)
(* (U_TimerStart, U_TimerStop).  The actor's message callback, the main    *)
(* loop's U_TimerTick and U_TimerInit/U_TimerDestroy run on one thread.    *)
(* The active timers are a list ordered by trigger_at; a released timer    *)
(* block goes to a free list and is used again by a later start.  A tick   *)
(* expires at most the head of the active list.                            *)
(*                                                                         *)
(* The actor framework that carries messages is not part of the            *)
(* repository; `mailbox` is the actor's message queue as u_timer.c uses it.*)
(***************************************************************************)
EXTENDS Integers, Sequences, SequencesExt

CONSTANTS Keys,            \* the (actor_id, timer_id) pairs clients use
          Blocks,          \* the timer blocks the heap can hand out
          Requests,        \* the (key, timeout, repeat) of START requests
          RepeatInfinite,  \* U_TIMER_REPEAT_INFINITE, the largest repeat
          Diffs,           \* the time differences U_TimerTick is called with
          MaxTime,         \* bound: the clock stops here
          MaxMailbox,      \* bound: requests waiting in the mailbox
          MaxInits,        \* bound: calls of U_TimerInit
          ExpiryCap        \* bound: a timer's expiries are counted up to here

Request == [key: Keys, timeout: Nat, repeat: 0..RepeatInfinite]

ASSUME ConstantsAssumption ==
  /\ RepeatInfinite \in Nat \ {0}
  /\ Requests \subseteq Request
  /\ Diffs \subseteq Int
  /\ Keys # {}
  /\ {MaxTime, MaxMailbox, MaxInits, ExpiryCap} \subseteq Nat

VARIABLES
  am,        \* TRUE while the actor API table is plugged in (am # 0)
  active,    \* u_active_timers, the list as the sequence of its blocks
  free,      \* u_free_timers, likewise
  tmr,       \* the content of each block
  t_total,   \* the clock: the sum of the positive tick differences
  mailbox,   \* requests sent to the timer actor and not yet dispatched
  inits      \* bound: calls of U_TimerInit so far

vars == <<am, active, free, tmr, t_total, mailbox, inits>>

\* struct UTimer without its next pointer.  The last three fields are
\* history: the repeat the start asked for, the clock when it was handled,
\* and how often the timer expired since (counted up to ExpiryCap).
Timer == [key: Keys, timeout: Nat, repeat: 0..RepeatInfinite,
          trigger_at: Nat,
          asked: 0..RepeatInfinite, at: Nat, expired: Nat]

Message == [type: {"START"}, req: Request] \cup [type: {"STOP"}, key: Keys]

TypeOK ==
  /\ am \in BOOLEAN
  /\ active \in Seq(Blocks)
  /\ free \in Seq(Blocks)
  /\ tmr \in [Blocks -> Timer]
  /\ t_total \in Nat
  /\ mailbox \in Seq(Message)
  /\ inits \in Nat

\* A block that holds no timer.  The code leaves the old fields in it, and
\* fills every one before it links the block again.
Blank == [key |-> CHOOSE k \in Keys : TRUE, timeout |-> 0, repeat |-> 0,
          trigger_at |-> 0, asked |-> 0, at |-> 0, expired |-> 0]

Init ==
  /\ am = TRUE
  /\ active = <<>>
  /\ free = <<>>
  /\ tmr = [b \in Blocks |-> Blank]
  /\ t_total = 0
  /\ mailbox = <<>>
  /\ inits = 1

-----------------------------------------------------------------------------
(* The lists.                                                              *)

\* Mutant: the comparison turned round.
InsertPlaceReversed(list, content, at) ==
  Min({k \in 1..Len(list) + 1 :
         k <= Len(list) => at >= content[list[k]].trigger_at})

\* The place U_TimerInsertTimer finds for a trigger time: in front of the
\* first timer that does not trigger earlier, else the end.
InsertPlace(list, content, at) ==
  Min({k \in 1..Len(list) + 1 :
         k <= Len(list) => at <= content[list[k]].trigger_at})

U_TimerInsertTimer(list, content, b) ==
  InsertAt(list, InsertPlace(list, content, content[b].trigger_at), b)

\* Mutant: a timer is taken for the key whatever key it has.
AnyTimer(key) == 1..Len(active)

\* The places of the active list that hold a timer with this key.
Matches(key) == {k \in 1..Len(active) : tmr[active[k]].key = key}

-----------------------------------------------------------------------------
(* The public interface, called from any thread.                           *)

Post(m) ==
  /\ am
  /\ Len(mailbox) < MaxMailbox
  /\ mailbox' = Append(mailbox, m)
  /\ UNCHANGED <<am, active, free, tmr, t_total, inits>>

\* Returns 0 and changes nothing when am is 0 or no message can be allocated.
U_TimerStart(req) == Post([type |-> "START", req |-> req])

U_TimerStop(key) == Post([type |-> "STOP", key |-> key])

-----------------------------------------------------------------------------
(* The message callback of the actor.                                      *)

InUse == {active[k] : k \in 1..Len(active)} \cup {free[k] : k \in 1..Len(free)}

\* U_Alloc.  Blocks are interchangeable, so which one it returns is no matter.
FromHeap == CHOOSE b \in Blocks \ InUse : TRUE

\* Mutant: the block is used and stays on the free list.
TakeBlockWithoutUnlink(b) ==
  \/ /\ free # <<>>
     /\ b = Head(free)
     /\ UNCHANGED free
  \/ /\ free = <<>>
     /\ InUse # Blocks
     /\ b = FromHeap
     /\ UNCHANGED free

\* The block a start takes: the head of the free list, else one of the heap.
TakeBlock(b) ==
  \/ /\ free # <<>>
     /\ b = Head(free)
     /\ free' = Tail(free)
  \/ /\ free = <<>>
     /\ InUse # Blocks
     /\ b = FromHeap
     /\ UNCHANGED free

Filled(req) ==
  [key |-> req.key, timeout |-> req.timeout, repeat |-> req.repeat,
   trigger_at |-> t_total + req.timeout,
   asked |-> req.repeat, at |-> t_total, expired |-> 0]

U_TimerStartTimerRequest(req) ==
  \E b \in Blocks :
    LET content == [tmr EXCEPT ![b] = Filled(req)] IN
    /\ TakeBlock(b)
    /\ tmr' = content
    /\ active' = U_TimerInsertTimer(active, content, b)

\* The first timer with the key goes to the free list; no match is no change.
U_TimerReleaseTimer(key) ==
  IF Matches(key) = {}
  THEN UNCHANGED <<active, free, tmr>>
  ELSE LET k == Min(Matches(key)) IN
       /\ active' = RemoveAt(active, k)
       /\ free' = <<active[k]>> \o free
       /\ tmr' = [tmr EXCEPT ![active[k]] = Blank]

\* With am = 0 the callback would read the message through a null pointer, so
\* a message left over by U_TimerDestroy waits for the next U_TimerInit.
U_Timers_MessageCallback ==
  /\ am
  /\ mailbox # <<>>
  /\ mailbox' = Tail(mailbox)
  /\ LET m == Head(mailbox) IN
     \/ m.type = "START" /\ U_TimerStartTimerRequest(m.req)
     \/ m.type = "STOP" /\ U_TimerReleaseTimer(m.key)
  /\ UNCHANGED <<am, t_total, inits>>

-----------------------------------------------------------------------------
(* The main loop's tick.                                                   *)

Advanced(diff) == IF 0 < diff THEN t_total + diff ELSE t_total

\* The repeat count an expiry leaves.
CountDown(repeat) == IF repeat = RepeatInfinite THEN repeat ELSE repeat - 1

CountExpiry(n) == IF n < ExpiryCap THEN n + 1 ELSE n

\* Mutant: the timer is armed again for the trigger time that has passed.
RearmedInThePast(b, at) ==
  [tmr EXCEPT ![b].repeat = CountDown(@),
              ![b].expired = CountExpiry(@)]

Rearmed(b, at) ==
  [tmr EXCEPT ![b].trigger_at = at + tmr[b].timeout,
              ![b].repeat = CountDown(@),
              ![b].expired = CountExpiry(@)]

\* Mutant: the repeat count is not looked at.
AlwaysRepeats(b) == TRUE

Repeats(b) == tmr[b].repeat # 0

\* The head of the list is unlinked, U_TimerSendTimeoutMessage runs, and the
\* block is inserted again or freed.  The notification is lost when no message
\* can be allocated; nothing in the timers depends on that.
Expire(at) ==
  LET b == Head(active) IN
  IF Repeats(b)
  THEN /\ tmr' = Rearmed(b, at)
       /\ active' = U_TimerInsertTimer(Tail(active), Rearmed(b, at), b)
       /\ UNCHANGED free
  ELSE /\ active' = Tail(active)
       /\ free' = <<b>> \o free
       /\ tmr' = [tmr EXCEPT ![b] = Blank]

\* Mutant: the tick expires the head without looking at its trigger time.
HeadExists(at) == active # <<>>

HeadIsDue(at) == active # <<>> /\ tmr[Head(active)].trigger_at <= at

U_TimerTick(diff) ==
  /\ Advanced(diff) <= MaxTime
  /\ t_total' = Advanced(diff)
  /\ \/ HeadIsDue(Advanced(diff)) /\ Expire(Advanced(diff))
     \/ ~HeadIsDue(Advanced(diff)) /\ UNCHANGED <<active, free, tmr>>
  /\ UNCHANGED <<am, mailbox, inits>>

-----------------------------------------------------------------------------
(* Start and end of the actor.                                             *)

\* Both lists go back to the heap.  The mailbox belongs to the framework.
U_TimerDestroy ==
  /\ am
  /\ am' = FALSE
  /\ active' = <<>>
  /\ free' = <<>>
  /\ tmr' = [b \in Blocks |-> Blank]
  /\ UNCHANGED <<t_total, mailbox, inits>>

U_TimerInit ==
  /\ ~am
  /\ inits < MaxInits
  /\ am' = TRUE
  /\ inits' = inits + 1
  /\ t_total' = 0
  /\ UNCHANGED <<active, free, tmr, mailbox>>

Tick == \E diff \in Diffs : U_TimerTick(diff)

Next ==
  \/ \E req \in Requests : U_TimerStart(req)
  \/ \E key \in Keys : U_TimerStop(key)
  \/ U_Timers_MessageCallback
  \/ Tick
  \/ U_TimerDestroy
  \/ U_TimerInit

Spec == Init /\ [][Next]_vars

\* The main loop keeps calling U_TimerTick, with whatever time has passed.
FairSpec == Spec /\ WF_vars(Tick)

-----------------------------------------------------------------------------
(* Properties.                                                             *)

Sorted(list, content) ==
  \A i, j \in 1..Len(list) :
    i < j => content[list[i]].trigger_at <= content[list[j]].trigger_at

(* The active list is ordered by trigger time: U_TimerTick looks at its    *)
(* head alone, so a timer behind a later one would fire too late.          *)
ActiveSorted == Sorted(active, tmr)

NoDuplicates(list) ==
  \A i, j \in 1..Len(list) : list[i] = list[j] => i = j

Disjoint(list1, list2) ==
  \A i \in 1..Len(list1), j \in 1..Len(list2) : list1[i] # list2[j]

(* A block is on one list at most, and once: re-arming, releasing and      *)
(* re-using blocks through the intrusive next pointer never links a block  *)
(* twice, which would close a cycle or fire a timer that was stopped.      *)
BlocksLinkedOnce ==
  /\ NoDuplicates(active)
  /\ NoDuplicates(free)
  /\ Disjoint(active, free)

(* Over its whole life a timer never expires ahead of time - after e       *)
(* expiries its next trigger lies at least e + 1 periods after the start   *)
(* was handled, however late and irregular the ticks were - nor is it      *)
(* armed for later than one period from now, and a finite timer never      *)
(* expires more often than asked for.                                      *)
OnSchedule(t, now) ==
  /\ t.at + (t.expired + 1) * t.timeout <= t.trigger_at
  /\ t.trigger_at <= now + t.timeout
  /\ t.asked # RepeatInfinite => t.expired + t.repeat <= t.asked

AllOnSchedule == \A k \in 1..Len(active) : OnSchedule(tmr[active[k]], t_total)

(* The abstract timer service, seen through the active list.               *)
Pending ==
  {[id |-> active[k], key |-> tmr[active[k]].key,
    timeout |-> tmr[active[k]].timeout, repeat |-> tmr[active[k]].repeat,
    due |-> tmr[active[k]].trigger_at] : k \in 1..Len(active)}

Service == INSTANCE TimerService
             WITH Handles <- Blocks, now <- t_total, pending <- Pending,
                  requests <- mailbox

(* Lists, blocks and the insertion order of equal trigger times add        *)
(* nothing the service does not allow: requests take effect in the order   *)
(* they were posted, a start arms one timer with the parameters of its     *)
(* request, a stop ends a timer of its own key and no other client's, a    *)
(* tick expires an earliest due timer and only such a one.                 *)
ImplementsService == Service!Spec

Overdue(b) ==
  tmr[b].trigger_at < t_total /\ \E k \in 1..Len(active) : active[k] = b

(* No timer starves: one whose trigger time the clock has passed expires   *)
(* or is stopped, whatever timers are started or re-armed meanwhile, also  *)
(* those with a timeout of zero, although a tick expires one timer only    *)
(* and a timer is inserted in front of those with the same trigger time.   *)
OverdueIsServed == \A b \in Blocks : Overdue(b) ~> ~Overdue(b)
=============================================================================
