-------------------------- MODULE MCPlanAlgorithms --------------------------
\* The algorithms on plans and the one on handoffs, each over its own inputs.
EXTENDS ContinuationPlan, HandoffChain

MCMembers == 1..3
MCStrangers == {9}

\* Every order of up to three members, with repeats and a stranger.
MCOrders == UNION {[1..k -> 1..3] : k \in 0..3} \union {<<1, 9>>}

\* Every graph on the three members, cycles and loops included.
MCProposals ==
  {[nodes |-> n, order |-> o, deps |-> [i \in Identities |-> IF i \in Members THEN d[i] ELSE {}]] :
     n \in {<<>>, <<1>>, <<2, 1>>, <<1, 9>>, <<2, 2>>, <<1, 2, 3>>, <<3, 1, 2>>},
     o \in MCOrders, d \in [Members -> SUBSET Members]}

\* Every accepted plan of two or three members, up to their names.
MCSources ==
  {[nodes |-> n, order |-> n, deps |-> [i \in Identities |-> IF i \in Members THEN d[i] ELSE {}]] :
     n \in {<<1, 2>>, <<1, 2, 3>>},
     d \in {f \in [Members -> SUBSET Members] : \A m \in Members : f[m] \subseteq 1..(m - 1)}}

\* Every change of dependencies, cycles and loops included.
MCRequests ==
  {[changed |-> c, deps |-> [m \in Identities |-> IF m \in c THEN d[m] ELSE {}]] :
     c \in SUBSET Members \ {{}}, d \in [Members -> SUBSET Members]}

\* The number of omitted rows has one digit more when two are omitted.
MCFrame(omitted) == IF omitted > 1 THEN 4 ELSE 3

\* Texts that fit, or not, complete or cut, and cuts that grow when they get narrower.
MCDeliveries == [full : {4, 8}, least : {1, 5}, cut : [1..MaxWidth -> {3, 5}]]
MCChains == UNION {[1..n -> MCDeliveries] : n \in 0..3}

NoPlan ==
  /\ source = CHOOSE s \in Sources : TRUE
  /\ completed = {} /\ fixed = FALSE
  /\ request = [changed |-> {}, deps |-> source.deps]
  /\ Propose(source)
  /\ step = "refused"
  /\ editable = {} /\ affected = {}

NoChain ==
  /\ deliveries = <<>> /\ at = "done" /\ next = 1
  /\ selected = <<>> /\ rows = <<>> /\ body = 0
  /\ extra = 0 /\ low = 0 /\ high = 0

AlgorithmsInit ==
  \/ (PlannedInit \/ ContinueInit) /\ NoChain
  \/ ChainInit /\ NoPlan

AlgorithmsNext ==
  \/ ContinueNext /\ UNCHANGED chainVars
  \/ ChainNext /\ UNCHANGED continueVars

AlgorithmsSpec == AlgorithmsInit /\ [][AlgorithmsNext]_<<continueVars, chainVars>>
=============================================================================
