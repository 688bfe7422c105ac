---------------------------- MODULE TimerService ----------------------------
(***************************************************************************)
(* What the timer actor of u_timer.c promises its clients, without lists   *)
(* or memory blocks: the requests on their way, a set of pending timers    *)
(* and a clock.                                                            *)
(*                                                                         *)
(*  - requests are served one by one in the order they were posted;        *)
(*  - a start arms one timer with the key, the timeout and the repeat of   *)
(*    its request, due `timeout` ticks of the clock after it was served;   *)
(*  - a stop ends one timer of its own key, and never another; it does     *)
(*    nothing only if no timer has the key;                                *)
(*  - one tick of the clock expires at most one timer, one with the        *)
(*    earliest due time, and never a timer that is not due;                *)
(*  - a tick does not pass by a due timer without expiring one;            *)
(*  - an expired timer with repetitions left is due again `timeout` after  *)
(*    the clock at which it expired.                                       *)
(***************************************************************************)
EXTENDS Naturals, Sequences, SequencesExt

CONSTANTS Handles,         \* tell apart timers with equal parameters
          Keys,            \* the (actor_id, timer_id) pairs clients use
          RepeatInfinite   \* the repeat value that is never counted down

VARIABLES now,      \* the clock
          pending,  \* the armed timers
          requests  \* posted and not yet served, the oldest first

vars == <<now, pending, requests>>

Request == [key: Keys, timeout: Nat, repeat: 0..RepeatInfinite]

Message == [type: {"START"}, req: Request] \cup [type: {"STOP"}, key: Keys]

Init ==
  /\ now = 0
  /\ pending = {}
  /\ requests = <<>>

Post ==
  /\ requests' # <<>>
  /\ LET m == Last(requests')
     IN m \in Message /\ requests' = Append(requests, m)
  /\ UNCHANGED <<now, pending>>

Armed(req, id) ==
  [id |-> id, key |-> req.key, timeout |-> req.timeout, repeat |-> req.repeat,
   due |-> now + req.timeout]

Start(req) ==
  \E id \in Handles :
    /\ \A p \in pending : p.id # id
    /\ pending' = pending \cup {Armed(req, id)}

Stop(key) ==
  LET its == {p \in pending : p.key = key}
  IN IF its = {} THEN UNCHANGED pending
     ELSE \E p \in its : pending' = pending \ {p}

Serve ==
  /\ requests # <<>>
  /\ LET m == Head(requests) IN
     \/ m.type = "START" /\ Start(m.req)
     \/ m.type = "STOP" /\ Stop(m.key)
  /\ requests' = Tail(requests)
  /\ UNCHANGED now

Rearmed(p, at) ==
  CASE p.repeat = 0              -> {}
    [] p.repeat = RepeatInfinite -> {[p EXCEPT !.due = at + p.timeout]}
    [] OTHER -> {[p EXCEPT !.due = at + p.timeout, !.repeat = @ - 1]}

Due(at) == {p \in pending : p.due <= at}

\* The clock moves on and nothing is due.
Pass(at) ==
  /\ Due(at) = {}
  /\ UNCHANGED pending

\* The clock moves on, or stands still, and a timer with the earliest due
\* time expires.
Expire(at) ==
  \E p \in Due(at) :
    /\ \A q \in pending : p.due <= q.due
    /\ pending' = (pending \ {p}) \cup Rearmed(p, at)

Tick ==
  /\ now' >= now
  /\ Pass(now') \/ Expire(now')
  /\ UNCHANGED requests

\* The service ends, all timers are forgotten.  Requests wait for the next.
Shutdown ==
  /\ pending' = {}
  /\ UNCHANGED <<now, requests>>

\* The service starts again with a fresh clock.
Restart ==
  /\ pending = {}
  /\ now' = 0
  /\ UNCHANGED <<pending, requests>>

Next == Post \/ Serve \/ Tick \/ Shutdown \/ Restart

Spec == Init /\ [][Next]_vars
=============================================================================
