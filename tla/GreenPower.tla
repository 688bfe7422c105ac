----------------------------- MODULE GreenPower -----------------------------
(***************************************************************************)
(* The reception of Green Power frames: the decoder of green_power.cpp and *)
(* the filter of repeated frames in green_power_controller.cpp.            *)
(*                                                                         *)
(* A device sends a frame once, and it is received several times, directly *)
(* and through proxies, in any order with the copies of other frames.  The *)
(* filter keeps a ring of the last frames it forwarded and drops what is   *)
(* in it.  The ring is static: it starts with zeros and outlives the       *)
(* controller object.                                                      *)
(*                                                                         *)
(* Frames are whole; how their fields lie in the octets is left out, which *)
(* fields they have is not.                                                *)
(***************************************************************************)
EXTENDS Integers

CONSTANTS Frames,        \* the frames that are sent
          Copies,        \* how often each can be received
          MAX_RECORDS,   \* the length of the ring
          IterRange      \* 2^32: lastReceivedIter wraps

\* A frame on the air.  `id` tells frames apart that are equal otherwise, as
\* the payload or the time would; without the extended frame control (ext)
\* there is no application and no security level.  `sequence` is the counter
\* a frame of security level 2 or 3 carries.
Frame == [id: Nat, type: {"data", "maintenance", "other"}, ext: BOOLEAN,
          applicationId: 0..7, securityLevel: 0..3,
          srcId: Nat, sequence: Nat, command: Nat]

ASSUME ConstantsAssumption ==
  /\ Frames \subseteq Frame
  /\ \A f \in Frames : ~f.ext => f.applicationId = 0 /\ f.securityLevel = 0
  /\ Copies \in Nat
  /\ MAX_RECORDS \in Nat \ {0}
  /\ IterRange \in Nat \ {0}
  /\ IterRange % MAX_RECORDS = 0

Slots == 0..MAX_RECORDS - 1

\* struct GP_Frame.
Key == [gpdSrcId: Nat, frameCounter: Nat, gpdCommandId: Nat]

Zero == [gpdSrcId |-> 0, frameCounter |-> 0, gpdCommandId |-> 0]

VARIABLES
  lastReceivedGP,     \* the ring
  lastReceivedIter,   \* the counter of records
  testZgpProxy,       \* the application's option --zgp-proxy-test
  copies,             \* how many copies of each frame may still arrive
  forwarded,          \* history: gpDataIndication signals for each frame
  age                 \* history: new frames since a frame was new, up to
                      \* MAX_RECORDS, which is also the value for "never"

vars == <<lastReceivedGP, lastReceivedIter, testZgpProxy, copies, forwarded, age>>

TypeOK ==
  /\ lastReceivedGP \in [Slots -> Key]
  /\ lastReceivedIter \in 0..IterRange - 1
  /\ testZgpProxy \in BOOLEAN
  /\ copies \in [Frames -> 0..Copies]
  /\ forwarded \in [Frames -> Nat]
  /\ age \in [Frames -> 0..MAX_RECORDS]

Init ==
  /\ lastReceivedGP = [i \in Slots |-> Zero]
  /\ lastReceivedIter = 0
  /\ testZgpProxy \in BOOLEAN
  /\ copies = [f \in Frames |-> Copies]
  /\ forwarded = [f \in Frames |-> 0]
  /\ age = [f \in Frames |-> MAX_RECORDS]

-----------------------------------------------------------------------------
(* The decoder.                                                            *)

readFromStream(f) == f.type # "other" /\ f.applicationId \in 0..2

HasSrcId(f) == f.applicationId = 0 /\ (f.type = "data" \/ f.ext)

HasCounter(f) == f.ext /\ f.applicationId \in {0, 2} /\ f.securityLevel \in 2..3

HasCommand(f) == f.applicationId \in {0, 2}

\* What is not in the frame is 0.
Decoded(f) ==
  [gpdSrcId     |-> IF HasSrcId(f) THEN f.srcId ELSE 0,
   frameCounter |-> IF HasCounter(f) THEN f.sequence ELSE 0,
   gpdCommandId |-> IF HasCommand(f) THEN f.command ELSE 0]

\* Proxies pass on frames of application 0, with the fields they found.
readFromStreamGpNotification(f) == readFromStream(f) /\ f.applicationId = 0

-----------------------------------------------------------------------------
(* The filter.                                                             *)

\* Mutant: the counter is not compared.
UnknownButForCounter(key) ==
  \A i \in Slots : \/ lastReceivedGP[i].gpdSrcId # key.gpdSrcId
                   \/ lastReceivedGP[i].gpdCommandId # key.gpdCommandId

Unknown(key) == \A i \in Slots : lastReceivedGP[i] # key

\* Mutant: the last place is never used.
OneRecordLess == lastReceivedIter % (MAX_RECORDS - 1)

RecordPlace == lastReceivedIter % MAX_RECORDS

\* Mutant: the counter does not wrap.
CountedOn == lastReceivedIter + 1

Counted == (lastReceivedIter + 1) % IterRange

\* The frame is new and is recorded, or it is known and nothing changes.
isUnknownIndication(f) ==
  LET key == Decoded(f) IN
  \/ /\ Unknown(key)
     /\ lastReceivedGP' = [lastReceivedGP EXCEPT ![RecordPlace] = key]
     /\ lastReceivedIter' = Counted
     /\ age' = [g \in Frames |-> IF Decoded(g) = key THEN 0
                                 ELSE IF age[g] < MAX_RECORDS THEN age[g] + 1
                                 ELSE age[g]]
  \/ /\ ~Unknown(key)
     /\ UNCHANGED <<lastReceivedGP, lastReceivedIter, age>>

Arrive(f) ==
  /\ copies[f] > 0
  /\ copies' = [copies EXCEPT ![f] = @ - 1]

Forward(f, condition) ==
  forwarded' = IF condition THEN [forwarded EXCEPT ![f] = @ + 1] ELSE forwarded

\* In the proxy test a direct copy is recorded, too, and not forwarded.
processIncomingData(f) ==
  /\ readFromStream(f)
  /\ Arrive(f)
  /\ isUnknownIndication(f)
  /\ Forward(f, Unknown(Decoded(f)) /\ ~testZgpProxy)
  /\ UNCHANGED testZgpProxy

\* GppCommandIdCommissioningNotification.  The code compares the command of
\* the device with it.
Commissioning(f) == Decoded(f).gpdCommandId = 4

processIncomingProxyNotification(f) ==
  /\ readFromStreamGpNotification(f)
  /\ Arrive(f)
  /\ isUnknownIndication(f)
  /\ Forward(f, Unknown(Decoded(f)) \/ Commissioning(f))
  /\ UNCHANGED testZgpProxy

\* The other frames are dropped.
Unreadable(f) ==
  /\ ~readFromStream(f)
  /\ Arrive(f)
  /\ UNCHANGED <<lastReceivedGP, lastReceivedIter, testZgpProxy, forwarded, age>>

Next ==
  \E f \in Frames :
    \/ processIncomingData(f)
    \/ processIncomingProxyNotification(f)
    \/ Unreadable(f)

Spec == Init /\ [][Next]_vars

-----------------------------------------------------------------------------
(* Properties.                                                             *)

\* The ring from the oldest record to the newest.
Recent ==
  [k \in 1..MAX_RECORDS |-> lastReceivedGP[(lastReceivedIter + k - 1) % MAX_RECORDS]]

Window == INSTANCE FrameWindow
            WITH Size <- MAX_RECORDS, Keys <- {Decoded(f) : f \in Frames},
                 recent <- Recent

(* The ring is a window that slides over the new frames, one by one and    *)
(* oldest first, also where the counter of records wraps.                  *)
ImplementsWindow == Window!Spec

\* No other frame looks the same to the filter.
Recognisable(f) ==
  /\ Decoded(f) # Zero
  /\ \A g \in Frames : Decoded(g) = Decoded(f) => g = f

(* No frame is lost for the filter's sake: as soon as a copy of a frame    *)
(* that can be recognised has arrived, the frame has been forwarded,       *)
(* whatever arrived before - unless the proxy test drops direct copies.    *)
FirstCopyForwarded ==
  \A f \in Frames :
    /\ ~testZgpProxy
    /\ readFromStreamGpNotification(f)
    /\ Recognisable(f)
    /\ copies[f] < Copies
    => forwarded[f] > 0

(* A frame that was forwarded is not forwarded again before MAX_RECORDS    *)
(* other new frames have come, whichever way its copies take; except for   *)
(* the command that is always forwarded.                                   *)
RepeatsAreOld ==
  [][\A f \in Frames :
       forwarded'[f] # forwarded[f] /\ ~Commissioning(f) => age[f] = MAX_RECORDS]_vars
=============================================================================
