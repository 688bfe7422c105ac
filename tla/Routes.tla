------------------------------- MODULE Routes -------------------------------
(* The source routes of a node (node.h, node.cpp): a route is built hop by  *)
(* hop, given to the node, and its counters follow what happened to the     *)
(* frames that were sent over it.  Callers work on copies (external).       *)
EXTENDS Integers, SequencesExt

CONSTANTS Hashes,      \* hashes of the uuids of routes; 0 is none
          Orders,
          Hops,        \* [ext, nwk, lqi]; the quality is 0 for a hop that is gone
          Paths,       \* sequences of hops that callers make routes of
          MaxHops,     \* 9
          DecayEvery,  \* errors after which the successes are halved, 10
          SleepAfter,  \* errors without success that are tolerated, 10
          RepairEvery, \* successes that make up for an error, 10
          SaveEvery,   \* successes after which a good route is saved, 50
          SaveRatio,   \* successes per error of a good route, 3
          CountMax     \* where both counters stop, UINT32_MAX

VARIABLE routes        \* m_sourceRoutes

vars == <<routes>>

\* The hops given are taken as they are, however many; they have no quality yet.
\* Their number is noted for the invariant.
SourceRoute(hash, order, hops) ==
  [hash |-> hash, order |-> order, hops |-> [i \in DOMAIN hops |-> [hops[i] EXCEPT !.lqi = 0]],
   given |-> Len(hops), txOk |-> 0, errors |-> 0, state |-> "Idle", save |-> FALSE]

\* operator==: the order, the state and the wish to be saved do not count.
Same(a, b) ==
  \A f \in {"hash", "txOk", "errors", "hops"} : a[f] = b[f]

isValid(r) == r.hash # 0 /\ r.hops # <<>>
isOperational(r) == r.state # "Sleep" /\ r.hops # <<>> /\ \A i \in DOMAIN r.hops : r.hops[i].lqi # 0
PlaceOfHop(r, ext) == SelectInSeq(r.hops, LAMBDA h : h.ext = ext)
hasHop(r, ext) == \E i \in DOMAIN r.hops : r.hops[i].ext = ext

addHop(r, hop) ==
  IF ~hasHop(r, hop.ext) /\ Len(r.hops) < MaxHops THEN [r EXCEPT !.hops = Append(@, hop)] ELSE r

\* Of hops with the same address the first one is changed.
updateHopAddress(r, hop) ==
  LET i == PlaceOfHop(r, hop.ext)
  IN  IF i = 0 THEN r ELSE [r EXCEPT !.hops[i].nwk = hop.nwk]

\* Mutant: the route sleeps before the successes are halved.
incrementErrorsEarly(r) ==
  LET errors == IF r.errors < CountMax THEN r.errors + 1 ELSE r.errors
      asleep == r.txOk = 0 /\ errors > SleepAfter
  IN  [r EXCEPT !.errors = errors,
                !.txOk = IF errors % DecayEvery = 0 THEN @ \div 2 ELSE @,
                !.state = IF asleep THEN "Sleep" ELSE @, !.save = @ /\ ~asleep]

incrementErrors(r) ==
  LET errors == IF r.errors < CountMax THEN r.errors + 1 ELSE r.errors
      txOk == IF errors % DecayEvery = 0 THEN r.txOk \div 2 ELSE r.txOk
      asleep == txOk = 0 /\ errors > SleepAfter
  IN  [r EXCEPT !.errors = errors, !.txOk = txOk,
                !.state = IF asleep THEN "Sleep" ELSE @, !.save = @ /\ ~asleep]

incrementTxOk(r) ==
  LET txOk == IF r.txOk < CountMax THEN r.txOk + 1 ELSE r.txOk
      errors == IF r.errors > 0 /\ txOk % RepairEvery = 0 THEN r.errors - 1 ELSE r.errors
  IN  [r EXCEPT !.txOk = txOk, !.errors = errors, !.state = "Working",
                !.save = @ \/ (errors < txOk \div SaveRatio /\ txOk % SaveEvery = 0)]

\* The first route with the hash, 0 when there is none.
Place(hash) == SelectInSeq(routes, LAMBDA r : r.hash = hash)

Init == routes = <<>>

\* A route as a caller builds it: some hops for the constructor, the others added.
Built(hash, order, first, others) ==
  LET with[n \in 0..Len(others)] ==
        IF n = 0 THEN SourceRoute(hash, order, first) ELSE addHop(with[n - 1], others[n])
  IN  with[Len(others)]

\* -1 for a route that is not valid, 0 added, 1 updated, 2 for one that is the same.
addSourceRoute(r) ==
  /\ isValid(r)
  /\ routes' = CASE Place(r.hash) = 0 -> Append(routes, r)
                 [] Place(r.hash) # 0 /\ ~Same(routes[Place(r.hash)], r) ->
                      [routes EXCEPT ![Place(r.hash)] = r]
                 [] OTHER -> routes

\* A route without hops is taken, too.
updateSourceRoute(r) == Place(r.hash) # 0 /\ routes' = [routes EXCEPT ![Place(r.hash)] = r]

\* What became of a frame that went over a route, the new address of a hop, or
\* that the route has been saved: copied, changed and put back.
Changed(i) ==
  /\ i \in DOMAIN routes
  /\ \E after \in {incrementTxOk(routes[i]), incrementErrors(routes[i]), [routes[i] EXCEPT !.save = FALSE]}
                   \cup {updateHopAddress(routes[i], hop) : hop \in Hops} :
       updateSourceRoute(after)

removeSourceRoute(hash) ==
  /\ Place(hash) # 0 /\ routes' = RemoveAt(routes, Place(hash))

Next ==
  \/ \E hash \in Hashes, order \in Orders, first, others \in Paths :
       \E r \in {Built(hash, order, first, others)} : addSourceRoute(r) \/ updateSourceRoute(r)
  \/ \E i \in DOMAIN routes : Changed(i)
  \/ \E hash \in Hashes : removeSourceRoute(hash)

Spec == Init /\ [][Next]_vars

-----------------------------------------------------------------------------
\* addHop neither goes over the limit nor repeats a hop.
HopsOK(r) ==
  /\ Len(r.hops) > r.given => Len(r.hops) <= MaxHops
  /\ \A i, j \in DOMAIN r.hops : i < j /\ r.given < j => r.hops[i].ext # r.hops[j].ext

RouteOK(r) ==
  /\ HopsOK(r)
  /\ r.state = "Sleep" <=> r.txOk = 0 /\ r.errors > SleepAfter
  /\ r.save => r.state # "Sleep"

\* The node knows a route once, the hops that were added to it respect the limit and
\* repeat none, and a route sleeps exactly while its failures outweigh: then it is
\* not saved.
RoutesOK ==
  /\ \A i \in DOMAIN routes : routes[i].hash # 0 /\ RouteOK(routes[i])
  /\ \A i, j \in DOMAIN routes : routes[i].hash = routes[j].hash => i = j
=============================================================================
