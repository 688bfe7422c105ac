------------------------------ MODULE ZclFrame ------------------------------
(* The ZCL frame around a command, the parameters of a command and the     *)
(* choice of the command that a received frame carries.                    *)
EXTENDS ZclAttribute

\* Bits of the frame control octet.
ManufacturerSpecific == 4
ServerToClient == 8

HasFlag(control, flag) == (control \div flag) % 2 = 1

\* A frame as the constructor and reset() leave it.
NoFrame ==
  [valid |-> FALSE, control |-> 0, mfcode |-> <<255, 255>>, seq |-> 0, command |-> 0,
   payload |-> <<>>]

writeFrame(f) ==
  <<f.control>> \o (IF HasFlag(f.control, ManufacturerSpecific) THEN f.mfcode ELSE <<>>)
    \o <<f.seq, f.command>> \o f.payload

\* Whatever was read is kept, valid says whether the header was whole.
readFrame(octets) ==
  LET in      == ReadFrom(octets)
      control == Got(in, 1)[1]
      special == HasFlag(control, ManufacturerSpecific)
      mf      == After(in, 1)
      number  == IF special THEN After(mf, 2) ELSE mf
      body    == After(After(number, 1), 1)
  IN  [valid |-> ~body.past, control |-> control,
       mfcode |-> IF special THEN Got(mf, 2) ELSE <<0, 0>>,
       seq |-> Got(number, 1)[1], command |-> Got(After(number, 1), 1)[1],
       payload |-> body.rest]

-----------------------------------------------------------------------------
(* The parameters of a command, one after the other.  The first one that   *)
(* fails ends it; the ones behind it keep what they had.                   *)

readParameters(params, types, octets, junk) ==
  LET step[i \in 0..Len(params)] ==
        IF i = 0
          THEN [ok |-> TRUE, params |-> <<>>, in |-> ReadFrom(octets)]
          ELSE LET p == step[i - 1]
                   r == readFromStream(params[i], types, p.in, junk)
               IN  IF p.ok
                     THEN [ok |-> r.ok, params |-> Append(p.params, r.attr), in |-> r.in]
                     ELSE [p EXCEPT !.params = Append(@, params[i])]
  IN  step[Len(params)]

writeParameters(params, types) ==
  LET step[i \in 0..Len(params)] ==
        IF i = 0
          THEN Wrote(<<>>)
          ELSE LET w == writeToStream(params[i], types)
               IN  IF step[i - 1].ok
                     THEN [ok |-> w.ok, out |-> step[i - 1].out \o w.out]
                     ELSE step[i - 1]
  IN  step[Len(params)]

\* Does the frame go the way the command goes?  recv is seen from the side of
\* the cluster that the data base entry describes.
SameWay(c, isServer, f) ==
  LET toClient == HasFlag(f.control, ServerToClient)
  IN  IF isServer THEN c.recv # toClient ELSE c.recv = toClient

\* ZclCluster::readCommand: the place of the command, zero if there is none.
CommandOf(cluster, f) ==
  LET fits == {i \in DOMAIN cluster.commands :
                 /\ cluster.commands[i].id = f.command
                 /\ SameWay(cluster.commands[i], cluster.isServer, f)}
  IN  IF ~cluster.isZcl \/ fits = {} THEN 0 ELSE CHOOSE i \in fits : \A j \in fits : i <= j

\* The result has the parameters the command then has.
NotRead == [ok |-> FALSE, params |-> <<>>, in |-> ReadFrom(<<>>)]

readCommand(cluster, f, types, junk) ==
  LET i == CommandOf(cluster, f)
  IN  IF i = 0 THEN NotRead
      ELSE readParameters(cluster.commands[i].params, types, f.payload, junk)

\* The same for a cluster that is not ZCL: the whole ASDU is its one command.
readCommandOfIndication(cluster, asdu, types, junk) ==
  IF cluster.isZcl \/ Len(cluster.commands) # 1
    THEN NotRead
    ELSE readParameters(cluster.commands[1].params, types, asdu, junk)
=============================================================================
