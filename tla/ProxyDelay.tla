----------------------------- MODULE ProxyDelay ------------------------------
(***************************************************************************)
(* The delay test of a proxy group (web/src/app/mihomo/proxies/page.tsx):  *)
(* testGroup collects what the group reaches, measures it with workers     *)
(* that share one index, and works out the delay of the group from what    *)
(* was measured.  Groups may contain groups, also one another.             *)
(***************************************************************************)
EXTENDS Integers, FiniteSets, FiniteSetsExt, SequencesExt

CONSTANTS
  ProxyGroups,   \* names in groupByName
  ProxyLeaves,   \* other names a group may list
  Latency,       \* what a name measures when it answers
  Older,         \* the delay the page shows of a leaf before the test
  DelayWorkers,  \* the workers of runDelayBatch
  DepthLimit,    \* how deep groups in groups are opened: 6
  TargetLimit    \* how many names are measured at most: 260

ASSUME LatencyAssumption ==
  /\ ProxyGroups # {}
  /\ ProxyGroups \cap ProxyLeaves = {} /\ IsFiniteSet(ProxyGroups \cup ProxyLeaves)
  /\ Latency \in [ProxyGroups \cup ProxyLeaves -> Nat \ {0}]
  /\ Older \in [ProxyLeaves -> Nat]
ASSUME LimitsAssumption == DepthLimit \in Nat /\ TargetLimit \in Nat \ {0}

VARIABLES
  members,   \* the nodes of each group
  found,     \* what collectDelayTargets found
  targets,   \* what is measured, in this order
  index,     \* the next one
  worker,    \* what each worker waits for
  results,   \* what was measured
  tested     \* history: how often each name was asked for

dvars == <<members, found, targets, index, worker, results, tested>>

ProxyNames == ProxyGroups \cup ProxyLeaves
Nobody == "nobody"
Start == CHOOSE g \in ProxyGroups : TRUE

-----------------------------------------------------------------------------
(* collectDelayTargets: depth first, each group once, and a group that is  *)
(* too deep not at all; then the names found first are taken. The order of *)
(* the nodes of a group is left open, and with it which these are.         *)

\* A call: added is what it finds added, visited the groups visited or about to be.
Visit == [name : ProxyNames, depth : 0..(DepthLimit + 1), added : SUBSET ProxyNames, visited : SUBSET ProxyGroups]
Collected[call \in Visit] ==
  LET added == call.added \cup {call.name}
  IN IF call.name \notin ProxyGroups \/ call.name \in call.visited \/ call.depth > DepthLimit
     THEN [added |-> added, visited |-> call.visited]
     ELSE LET nodes == SetToSeq(members[call.name])
              upto[i \in 0..Len(nodes)] ==
                IF i = 0 THEN [added |-> added, visited |-> call.visited \cup {call.name}]
                ELSE Collected[[name |-> nodes[i], depth |-> call.depth + 1,
                                added |-> upto[i - 1].added \cup {nodes[i]},
                                visited |-> upto[i - 1].visited]]
          IN upto[Len(nodes)]

CollectDelayTargets(name) ==
  Collected[[name |-> name, depth |-> 0, added |-> {}, visited |-> {}]].added

\* slice(0, 260): the group itself was found first; any of the others may be cut,
\* also where no order of the nodes would find just these first.
Sliced(names, name) ==
  IF Cardinality(names) <= TargetLimit THEN {names}
  ELSE { some \in SUBSET names : name \in some /\ Cardinality(some) = TargetLimit }

-----------------------------------------------------------------------------
(* aggregateGroupDelays: a group that was not measured itself gets the     *)
(* smallest delay of its members; next remembers what was worked out.  A   *)
(* leaf that measured nothing counts with the delay it had before.         *)

LeafDelay(name, next) == IF next[name] > 0 THEN next[name] ELSE Older[name]
Positive(S) == S \ {0}
MinOrZero(S) == IF S = {} THEN 0 ELSE Min(S)

\* A call: the delays known so far, and the groups that wait for it.
Delays == [ProxyNames -> Nat]
Query == [name : ProxyNames, next : Delays, visiting : SUBSET ProxyGroups]
Resolve[query \in Query] ==
  LET name == query.name
      direct == query.next[name]
  IN IF name \notin ProxyGroups THEN [delay |-> LeafDelay(name, query.next), next |-> query.next]
     ELSE IF name \in query.visiting THEN [delay |-> direct, next |-> query.next]
     ELSE LET nodes == SetToSeq(members[name])
              upto[i \in 0..Len(nodes)] ==
                IF i = 0 THEN [delays |-> {}, next |-> query.next]
                ELSE LET child == Resolve[[name |-> nodes[i], next |-> upto[i - 1].next,
                                           visiting |-> query.visiting \cup {name}]]
                     IN [delays |-> upto[i - 1].delays \cup {child.delay}, next |-> child.next]
              all == upto[Len(nodes)]
              delay == IF direct > 0 THEN direct ELSE MinOrZero(Positive(all.delays))
          IN [delay |-> delay,
              next |-> IF delay > 0 THEN [all.next EXCEPT ![name] = delay] ELSE all.next]

\* Mutant: nested groups count with what was measured of them.
AggregateFlat(name) ==
  LET delay(n) == IF n \in ProxyGroups THEN results[n] ELSE LeafDelay(n, results)
  IN IF results[name] > 0 THEN results
     ELSE [results EXCEPT ![name] = MinOrZero(Positive({ delay(n) : n \in members[name] }))]
AggregateGroupDelays(name) == Resolve[[name |-> name, next |-> results, visiting |-> {}]].next

-----------------------------------------------------------------------------
(* runDelayBatch.                                                          *)

DelayTypeOK ==
  /\ members \in [ProxyGroups -> SUBSET ProxyNames] /\ found \in SUBSET ProxyNames
  /\ targets \in Seq(ProxyNames) /\ index \in 1..(Len(targets) + 1)
  /\ worker \in [DelayWorkers -> ProxyNames \cup {Nobody}]
  /\ results \in [ProxyNames -> Nat]
  /\ tested \in [ProxyNames -> Nat]

\* testGroup: the groups of the page are what the test goes by.
DelayInit ==
  /\ members \in [ProxyGroups -> (SUBSET ProxyNames) \ {{}}]
  /\ found = CollectDelayTargets(Start)
  /\ \E names \in Sliced(found, Start) : targets = SetToSeq(names)
  /\ index = 1
  /\ worker = [w \in DelayWorkers |-> Nobody]
  /\ results = [n \in ProxyNames |-> 0]
  /\ tested = [n \in ProxyNames |-> 0]

\* Mutant: the index moves on when the answer arrives.
TakeLate(w) ==
  /\ worker[w] = Nobody /\ index <= Len(targets)
  /\ worker' = [worker EXCEPT ![w] = targets[index]]
  /\ tested' = [tested EXCEPT ![targets[index]] = @ + 1]
  /\ index' = IF \E v \in DelayWorkers : v # w /\ worker[v] # Nobody
              THEN index + 1 ELSE index
  /\ UNCHANGED <<members, found, targets, results>>
\* Mutant: the index moves twice.
TakeTwice(w) ==
  /\ worker[w] = Nobody /\ index <= Len(targets)
  /\ worker' = [worker EXCEPT ![w] = targets[index]]
  /\ tested' = [tested EXCEPT ![targets[index]] = @ + 1]
  /\ index' = index + 2
  /\ UNCHANGED <<members, found, targets, results>>
\* A worker takes the next name: index is read and moved before the await.
Take(w) ==
  /\ worker[w] = Nobody /\ index <= Len(targets)
  /\ worker' = [worker EXCEPT ![w] = targets[index]]
  /\ tested' = [tested EXCEPT ![targets[index]] = @ + 1]
  /\ index' = index + 1
  /\ UNCHANGED <<members, found, targets, results>>

\* A call that fails counts as 0, like one that times out.
Measured(w) ==
  /\ worker[w] # Nobody
  /\ results' \in { [results EXCEPT ![worker[w]] = d] : d \in {0, Latency[worker[w]]} }
  /\ worker' = [worker EXCEPT ![w] = Nobody]
  /\ UNCHANGED <<members, found, targets, index, tested>>

DelayNext == \E w \in DelayWorkers : Take(w) \/ Measured(w)
DelaySpec == DelayInit /\ [][DelayNext]_dvars

BatchDone == index > Len(targets) /\ \A w \in DelayWorkers : worker[w] = Nobody

-----------------------------------------------------------------------------
(* Properties.                                                             *)

\* What a name goes by: itself, and what is reached through groups that have no
\* delay of their own; and the delays that are there.
Closed(F) == \A g \in F \cap ProxyGroups : results[g] = 0 => members[g] \subseteq F
Frontier(name) == { n \in ProxyNames : \A F \in SUBSET ProxyNames : name \in F /\ Closed(F) => n \in F }
Reached(name) ==
  Positive({ IF n \in ProxyGroups THEN results[n] ELSE LeafDelay(n, results) : n \in Frontier(name) })

\* No group contains itself, also not through others.
Ranks == [ProxyGroups -> 1..Cardinality(ProxyGroups)]
Ranked(rank) == \A g \in ProxyGroups : \A n \in members[g] \cap ProxyGroups : rank[n] < rank[g]
Nested == \E rank \in Ranks : Ranked(rank)

\* No group is too deep to be opened: none is nested deeper than DepthLimit in one
\* direction, or there are not enough of them.
Shallow ==
  \/ \E rank \in [ProxyGroups -> 0..DepthLimit] : Ranked(rank)
  \/ Cardinality(ProxyGroups) <= DepthLimit + 1
\* With a group the nodes of it.
Whole(S) == \A g \in S \cap ProxyGroups : members[g] \subseteq S

\* However the workers take turns, each name on the list is measured once and no
\* other is; the group is on it, and else what it reaches: as far as DepthLimit and
\* TargetLimit let it, and all of it where neither is met (page.tsx:1008-1057).
EachMeasuredOnce ==
  BatchDone =>
    /\ \A n \in ProxyNames : tested[n] = IF n \in ToSet(targets) THEN 1 ELSE 0
    /\ Start \in ToSet(targets) /\ Cardinality(ToSet(targets)) <= TargetLimit
    /\ \A S \in SUBSET ProxyNames : Start \in S /\ Whole(S) => ToSet(targets) \subseteq S
    /\ Shallow /\ Cardinality(found) <= TargetLimit => Whole(ToSet(targets))

\* The delay shown of a group is its own, or one that is reached through groups
\* without one, a leaf that did not answer counting with its delay of before; the
\* group tested has one if any is reached; and the best one, as are all that are
\* shown, unless groups contain one another: what the recursion remembers of a
\* group in a loop lacks what its callers reach (page.tsx:1059-1082).
BestDelayFound ==
  BatchDone =>
    LET shown == AggregateGroupDelays(Start)
    IN /\ \A g \in ProxyGroups : shown[g] > 0 => shown[g] \in Reached(g)
       /\ shown[Start] = 0 <=> Reached(Start) = {}
       /\ Nested => \A g \in ProxyGroups : shown[g] > 0 => \A d \in Reached(g) : shown[g] <= d
=============================================================================
