-------------------------- MODULE NifiInstallProofs --------------------------
(***************************************************************************)
(* Theorems about NifiInstall, for any number of starts of the container.  *)
(***************************************************************************)
EXTENDS NifiInstall, FiniteSetTheorems, TLAPS

\* Before this start's group exists, while it is being built, and while this
\* start has no service of its own.
Clearing == {"waiting", "nextGroup", "stop", "drain", "delete", "createGroup"}
Chaining == {"build", "startGroup"}
Serving == {"findService", "disable", "deleteService", "createService"}
Constructing == Serving \cup {"enable", "poll"} \cup Chaining

\* nifi has its two fields, and the variables have their types.
IsCanvas(c) == c = [groups |-> c.groups, services |-> c.services]
Typed == IsCanvas(nifi) /\ TypeOK

\* The group of this start: not there, then growing chain by chain, and stopped
\* until it has all of them.
OwnGroup ==
  /\ pc \in Clearing => start \notin DOMAIN nifi.groups
  /\ pc \in Constructing => start \in DOMAIN nifi.groups /\ Install.state = "STOPPED"
  /\ pc \in Constructing \ Chaining => Install.chains = <<>>
  /\ pc = "build" => Len(Install.chains) < 4
  /\ pc = "startGroup" => Len(Install.chains) = 4
  /\ pc \in Chaining =>
       \A i \in 1..Len(Install.chains) : Install.chains[i] = IF i = 4 THEN None ELSE dbcp

\* A group writes through the service of the start that built it, or not at all.
OwnChains ==
  \A g \in DOMAIN nifi.groups : \A i \in DOMAIN nifi.groups[g].chains :
    nifi.groups[g].chains[i] \in {None, g}

OwnService ==
  /\ dbcp \in {None, start}
  /\ pc \in Clearing \cup Serving => dbcp = None
  /\ pc \in {"enable", "poll"} => dbcp = start
  /\ pc \in Chaining /\ dbcp = start => nifi.services[start] = "ENABLED"

Targets ==
  /\ pc \in {"stop", "drain", "delete"} => target \in DOMAIN nifi.groups \ todo
  /\ pc \in {"disable", "deleteService"} => target \in DOMAIN nifi.services

\* RunningChainsCanWrite, chain by chain.
WritersServed ==
  \A g \in DOMAIN nifi.groups : nifi.groups[g].state # "STOPPED" =>
    \A i \in DOMAIN nifi.groups[g].chains :
      LET s == nifi.groups[g].chains[i] IN
        s # None => s \in DOMAIN nifi.services /\ nifi.services[s] = "ENABLED"

\* As long as there is no trouble, the next call will do what it is meant to, or
\* come too early.
Untroubled ==
  ~trouble =>
    /\ ~warned
    /\ pc = "drain" => nifi.groups[target].state # "RUNNING"
    /\ pc = "delete" => /\ nifi.groups[target].state = "STOPPED"
                        /\ nifi.groups[target].queue # "filled"
    /\ pc = "deleteService" => nifi.services[target] = "DISABLED"

\* As long as the log is clean, what is on the canvas is known.
CleanSoFar ==
  ~warned =>
    /\ pc = "nextGroup" => DOMAIN nifi.groups = todo
    /\ pc \in {"stop", "drain", "delete"} => DOMAIN nifi.groups = todo \cup {target}
    /\ pc = "createGroup" => DOMAIN nifi.groups = {}
    /\ pc \in Constructing => DOMAIN nifi.groups = {start}
    /\ pc \in Chaining => dbcp = start
    /\ pc = "ended" => Installed

Services == Cardinality(DOMAIN nifi.services)

ServicesCounted ==
  /\ pc \in Clearing \cup Serving => Services <= failures + 1
  /\ pc = "createService" /\ ~trouble => Services <= failures
  /\ ServicesGrowByFailureOnly

IInv ==
  /\ Typed
  /\ OwnGroup
  /\ OwnChains
  /\ OwnService
  /\ Targets
  /\ RunningIsComplete
  /\ WritersServed
  /\ Untroubled
  /\ CleanSoFar
  /\ ServicesCounted

USE DEF AtWork

-----------------------------------------------------------------------------
(* What each call leaves on the canvas. *)

\* Group g becomes h; everything else stays.
GroupBecomes(g, h) ==
  /\ IsCanvas(nifi')
  /\ nifi'.services = nifi.services
  /\ nifi'.groups = [x \in DOMAIN nifi.groups \cup {g} |-> IF x = g THEN h ELSE nifi.groups[x]]

\* Service s gets a state; everything else stays.
ServiceBecomes(s, state) ==
  /\ IsCanvas(nifi')
  /\ nifi'.groups = nifi.groups
  /\ nifi'.services =
       [x \in DOMAIN nifi.services \cup {s} |-> IF x = s THEN state ELSE nifi.services[x]]

LEMMA ServiceInIs ==
  ASSUME IsCanvas(nifi), NEW s, NEW state, nifi' = ServiceIn(s, state)
  PROVE  ServiceBecomes(s, state)
  BY DEF IsCanvas, ServiceIn, With, ServiceBecomes

LEMMA ServiceDeletedIs ==
  ASSUME IsCanvas(nifi), NEW s, nifi' = ServiceDeleted(s)
  PROVE  /\ IsCanvas(nifi')
         /\ nifi'.groups = nifi.groups
         /\ nifi'.services = [x \in DOMAIN nifi.services \ {s} |-> nifi.services[x]]
  BY DEF IsCanvas, ServiceDeleted, Without

LEMMA DeletedIs ==
  ASSUME IsCanvas(nifi), NEW g, nifi' = Deleted(g)
  PROVE  /\ IsCanvas(nifi')
         /\ nifi'.services = nifi.services
         /\ nifi'.groups = [x \in DOMAIN nifi.groups \ {g} |-> nifi.groups[x]]
  BY DEF IsCanvas, Deleted, Without

LEMMA CreatedIs ==
  ASSUME IsCanvas(nifi), NEW g, NEW h, nifi' = [nifi EXCEPT !.groups = With(@, g, h)]
  PROVE  GroupBecomes(g, h)
  BY DEF IsCanvas, With, GroupBecomes

\* The four updates of one field of a group that is there.
LEMMA FieldIs ==
  ASSUME Typed, NEW g \in DOMAIN nifi.groups
  PROVE  LET h == nifi.groups[g] IN
         /\ \A b : nifi' = [nifi EXCEPT !.groups[g].state = b] =>
              GroupBecomes(g, [state |-> b, queue |-> h.queue, chains |-> h.chains])
         /\ \A b : nifi' = [nifi EXCEPT !.groups[g].queue = b] =>
              GroupBecomes(g, [state |-> h.state, queue |-> b, chains |-> h.chains])
         /\ \A c : nifi' = [nifi EXCEPT !.groups[g].chains = c] =>
              GroupBecomes(g, [state |-> h.state, queue |-> h.queue, chains |-> c])
<1>1. /\ IsCanvas(nifi)
      /\ nifi.groups[g] \in Group
      /\ nifi.groups = [x \in DOMAIN nifi.groups |-> nifi.groups[x]]
  BY DEF Typed, TypeOK
<1>2. nifi.groups[g] = [state |-> nifi.groups[g].state, queue |-> nifi.groups[g].queue,
                        chains |-> nifi.groups[g].chains]
  BY <1>1 DEF Group
<1>3. ASSUME NEW b, nifi' = [nifi EXCEPT !.groups[g].state = b]
      PROVE  GroupBecomes(g, [state |-> b, queue |-> nifi.groups[g].queue,
                              chains |-> nifi.groups[g].chains])
  BY <1>1, <1>2, <1>3 DEF IsCanvas, GroupBecomes
<1>4. ASSUME NEW b, nifi' = [nifi EXCEPT !.groups[g].queue = b]
      PROVE  GroupBecomes(g, [state |-> nifi.groups[g].state, queue |-> b,
                              chains |-> nifi.groups[g].chains])
  BY <1>1, <1>2, <1>4 DEF IsCanvas, GroupBecomes
<1>5. ASSUME NEW c, nifi' = [nifi EXCEPT !.groups[g].chains = c]
      PROVE  GroupBecomes(g, [state |-> nifi.groups[g].state,
                              queue |-> nifi.groups[g].queue, chains |-> c])
  BY <1>1, <1>2, <1>5 DEF IsCanvas, GroupBecomes
<1>6. QED
  BY <1>3, <1>4, <1>5

\* The types after a call.
LEMMA GroupTypes ==
  ASSUME Typed, NEW g \in 1..start, NEW h \in Group, GroupBecomes(g, h)
  PROVE  /\ IsCanvas(nifi') /\ nifi'.services = nifi.services
         /\ DOMAIN nifi'.groups = DOMAIN nifi.groups \cup {g}
         /\ nifi'.groups[g] = h
         /\ \A x \in DOMAIN nifi.groups \ {g} : nifi'.groups[x] = nifi.groups[x]
         /\ nifi'.groups \in [DOMAIN nifi'.groups -> Group]
         /\ DOMAIN nifi'.groups \subseteq 1..start
  BY DEF Typed, TypeOK, GroupBecomes

LEMMA ServiceTypes ==
  ASSUME Typed, NEW s \in 1..start, NEW state \in {"DISABLED", "ENABLING", "ENABLED"},
         ServiceBecomes(s, state)
  PROVE  /\ IsCanvas(nifi') /\ nifi'.groups = nifi.groups
         /\ DOMAIN nifi'.services = DOMAIN nifi.services \cup {s}
         /\ nifi'.services[s] = state
         /\ \A x \in DOMAIN nifi.services \ {s} : nifi'.services[x] = nifi.services[x]
         /\ nifi'.services \in
              [DOMAIN nifi'.services -> {"DISABLED", "ENABLING", "ENABLED"}]
         /\ DOMAIN nifi'.services \subseteq 1..start
  BY DEF Typed, TypeOK, ServiceBecomes

\* The numbers.
LEMMA Numbers ==
  ASSUME Typed
  PROVE  /\ start \in Nat /\ start # None /\ start \in 1..start
         /\ failures \in Nat
         /\ IsFiniteSet(DOMAIN nifi.services)
         /\ Services \in Nat
<1>1. start \in Nat /\ start >= 1 /\ failures \in Nat
  BY InstallAssumption DEF Typed, TypeOK, Starts
<1>2. IsFiniteSet(1..start)
  BY <1>1, FS_Interval
<1>3. DOMAIN nifi.services \in SUBSET (1..start)
  BY DEF Typed, TypeOK
<1>4. IsFiniteSet(DOMAIN nifi.services)
  BY <1>2, <1>3, FS_Subset
<1>5. QED
  BY <1>1, <1>4, FS_CardinalityType DEF None, Services

\* A call that adds no service.
LEMMA CountStays ==
  ASSUME Typed, ServicesCounted, DOMAIN nifi'.services = DOMAIN nifi.services,
         failures' = failures, trouble' \in {trouble, TRUE},
         pc' \in Clearing \cup Serving => pc \in Clearing \cup Serving,
         pc' = "createService" /\ ~trouble' => Services <= failures
  PROVE  ServicesCounted'
<1>1. Services' = Services /\ Services \in Nat /\ failures \in Nat
  BY Numbers DEF Services
<1>2. ServicesGrowByFailureOnly'
  <2>1. Services <= failures + 1 + (IF trouble THEN 1 ELSE 0)
    BY DEF ServicesCounted, ServicesGrowByFailureOnly, Services
  <2>2. trouble' = trouble \/ trouble' = TRUE
    OBVIOUS
  <2>3. Services <= failures + 1 + (IF trouble' THEN 1 ELSE 0)
    BY <1>1, <2>1, <2>2
  <2>4. QED
    BY <1>1, <2>3 DEF ServicesGrowByFailureOnly, Services
<1>3. QED
  BY <1>1, <1>2 DEF ServicesCounted

-----------------------------------------------------------------------------
(* The installer, call by call. *)

LEMMA WaitInvariant ==
  ASSUME IInv, WaitForApi
  PROVE  IInv'
<1>1. /\ nifi' = nifi /\ start' = start /\ dbcp' = dbcp /\ target' = target
      /\ pc = "waiting" /\ failures' = failures
      /\ \/ /\ todo' = DOMAIN nifi.groups /\ pc' = "nextGroup"
            /\ warned' = warned /\ trouble' = trouble
         \/ todo' = todo /\ pc' = "ended" /\ warned' = TRUE /\ trouble' = TRUE
  BY DEF WaitForApi, Answered, Failed, Raise, GoTo, history, FindAllPgs
<1>2. Typed'
  BY <1>1 DEF IInv, Typed, TypeOK, IsCanvas, Steps
<1>3. OwnGroup' /\ OwnChains'
  BY <1>1 DEF IInv, OwnGroup, OwnChains, Clearing, Constructing, Serving, Chaining
<1>4. OwnService' /\ Targets'
  BY <1>1 DEF IInv, OwnService, Targets, Clearing, Serving, Chaining
<1>5. RunningIsComplete' /\ WritersServed'
  BY <1>1 DEF IInv, RunningIsComplete, WritersServed
<1>6. Untroubled' /\ CleanSoFar'
  BY <1>1 DEF IInv, Untroubled, CleanSoFar, Constructing, Serving, Chaining
<1>7. ServicesCounted'
  BY <1>1, CountStays DEF IInv, Clearing, Serving
<1>8. QED
  BY <1>2, <1>3, <1>4, <1>5, <1>6, <1>7 DEF IInv

LEMMA NextGroupInvariant ==
  ASSUME IInv, NextGroup
  PROVE  IInv'
<1>1. /\ nifi' = nifi /\ start' = start /\ dbcp' = dbcp
      /\ warned' = warned /\ trouble' = trouble /\ failures' = failures
      /\ pc = "nextGroup"
      /\ \/ target' \in todo /\ todo' = todo \ {target'} /\ pc' = "stop"
         \/ todo = {} /\ target' = None /\ todo' = todo /\ pc' = "createGroup"
  BY DEF NextGroup, GoTo, history
<1>2. todo \subseteq DOMAIN nifi.groups /\ DOMAIN nifi.groups \subseteq 1..start
      /\ start \in Nat
  BY Numbers DEF IInv, Typed, TypeOK
<1>3. target' \in 0..start
  BY <1>1, <1>2 DEF None
<1>4. Typed'
  BY <1>1, <1>3 DEF IInv, Typed, TypeOK, IsCanvas, Steps
<1>5. OwnGroup' /\ OwnChains'
  BY <1>1 DEF IInv, OwnGroup, OwnChains, Clearing, Constructing, Serving, Chaining
<1>6. OwnService' /\ Targets'
  BY <1>1, <1>2 DEF IInv, OwnService, Targets, Clearing, Serving, Chaining
<1>7. RunningIsComplete' /\ WritersServed'
  BY <1>1 DEF IInv, RunningIsComplete, WritersServed
<1>8. Untroubled' /\ CleanSoFar'
  BY <1>1 DEF IInv, Untroubled, CleanSoFar, Constructing, Serving, Chaining
<1>9. ServicesCounted'
  BY <1>1, CountStays DEF IInv, Clearing, Serving
<1>10. QED
  BY <1>4, <1>5, <1>6, <1>7, <1>8, <1>9 DEF IInv

\* Calls that only stop, drain or delete groups.
Calmer ==
  /\ IsCanvas(nifi')
  /\ nifi'.services = nifi.services
  /\ DOMAIN nifi'.groups \subseteq DOMAIN nifi.groups
  /\ nifi'.groups \in [DOMAIN nifi'.groups -> Group]
  /\ \A x \in DOMAIN nifi'.groups :
       /\ nifi'.groups[x].chains = nifi.groups[x].chains
       /\ nifi'.groups[x].state # "STOPPED" => nifi.groups[x].state # "STOPPED"

LEMMA CalmerKeeps ==
  ASSUME IInv, Calmer
  PROVE  OwnChains' /\ RunningIsComplete' /\ WritersServed'
<1>1. OwnChains'
  BY DEF IInv, OwnChains, Calmer
<1>2. RunningIsComplete'
  BY DEF IInv, RunningIsComplete, Calmer
<1>3. WritersServed'
  BY DEF IInv, WritersServed, Calmer
<1>4. QED
  BY <1>1, <1>2, <1>3

LEMMA ClearInvariant ==
  ASSUME IInv, Calmer, UNCHANGED <<start, dbcp, failures>>,
         pc \in {"stop", "drain", "delete"}, pc' \in {"drain", "delete", "nextGroup"},
         target' = target, todo' = todo,
         todo \subseteq DOMAIN nifi'.groups,
         pc' # "nextGroup" => target \in DOMAIN nifi'.groups,
         <<warned', trouble'>> \in BOOLEAN \X BOOLEAN,
         trouble => trouble',
         Untroubled',
         ~warned' => ~warned,
         ~warned' /\ pc' # "nextGroup" => DOMAIN nifi'.groups = DOMAIN nifi.groups,
         ~warned' /\ pc' = "nextGroup" => DOMAIN nifi'.groups = DOMAIN nifi.groups \ {target}
  PROVE  IInv'
<1>1. target \in DOMAIN nifi.groups \ todo
  BY DEF IInv, Targets
<1>2. Typed'
  BY DEF IInv, Typed, TypeOK, Calmer, Steps
<1>3. OwnGroup'
  BY DEF IInv, OwnGroup, Calmer, Clearing, Constructing, Serving, Chaining
<1>4. OwnService' /\ Targets'
  BY <1>1 DEF IInv, OwnService, Targets, Clearing, Serving, Chaining
<1>5. CleanSoFar'
  BY <1>1 DEF IInv, CleanSoFar, Constructing, Serving, Chaining
<1>6. ServicesCounted'
  <2>1. trouble' \in {trouble, TRUE}
    BY DEF IInv, Typed, TypeOK
  <2>2. QED
    BY <2>1, CountStays DEF IInv, Clearing, Serving, Calmer
<1>7. QED
  BY <1>2, <1>3, <1>4, <1>5, <1>6, CalmerKeeps DEF IInv

LEMMA SameIsCalm ==
  ASSUME Typed, nifi' = nifi
  PROVE  Calmer /\ DOMAIN nifi'.groups = DOMAIN nifi.groups
  BY DEF Typed, TypeOK, Calmer

\* A group that does not become busier ...
LEMMA StateIsCalm ==
  ASSUME Typed, NEW g \in DOMAIN nifi.groups, NEW b \in {"STOPPING", "STOPPED"},
         nifi.groups[g].state = "STOPPED" => b = "STOPPED",
         nifi' = [nifi EXCEPT !.groups[g].state = b]
  PROVE  /\ Calmer /\ DOMAIN nifi'.groups = DOMAIN nifi.groups
         /\ nifi'.groups[g].state = b
         /\ \A x \in DOMAIN nifi.groups : x # g => nifi'.groups[x] = nifi.groups[x]
         /\ \A x \in DOMAIN nifi.groups : nifi'.groups[x].queue = nifi.groups[x].queue
<1> DEFINE h == [state |-> b, queue |-> nifi.groups[g].queue,
                 chains |-> nifi.groups[g].chains]
<1>1. g \in 1..start /\ nifi.groups[g] \in Group
  BY DEF Typed, TypeOK
<1>2. h \in Group
  BY <1>1 DEF Group
<1>3. GroupBecomes(g, h)
  BY FieldIs
<1>4. QED
  BY <1>1, <1>2, <1>3, GroupTypes DEF Calmer

\* ... and one whose queues are filled or emptied.
LEMMA QueueIsCalm ==
  ASSUME Typed, NEW g \in DOMAIN nifi.groups, NEW q \in {"empty", "filled", "dropping"},
         nifi' = [nifi EXCEPT !.groups[g].queue = q]
  PROVE  /\ Calmer /\ DOMAIN nifi'.groups = DOMAIN nifi.groups
         /\ nifi'.groups[g].queue = q
         /\ \A x \in DOMAIN nifi.groups : x # g => nifi'.groups[x] = nifi.groups[x]
         /\ \A x \in DOMAIN nifi.groups : nifi'.groups[x].state = nifi.groups[x].state
<1> DEFINE h == [state |-> nifi.groups[g].state, queue |-> q,
                 chains |-> nifi.groups[g].chains]
<1>1. g \in 1..start /\ nifi.groups[g] \in Group
  BY DEF Typed, TypeOK
<1>2. h \in Group
  BY <1>1 DEF Group
<1>3. GroupBecomes(g, h)
  BY FieldIs
<1>4. QED
  BY <1>1, <1>2, <1>3, GroupTypes DEF Calmer

LEMMA StoppingIsCalm ==
  ASSUME Typed, NEW g \in DOMAIN nifi.groups, nifi' = Stopping(g)
  PROVE  Calmer /\ DOMAIN nifi'.groups = DOMAIN nifi.groups /\ nifi'.groups[g].state # "RUNNING"
<1> DEFINE b == IF nifi.groups[g].state = "STOPPED" THEN "STOPPED" ELSE "STOPPING"
<1>1. nifi' = [nifi EXCEPT !.groups[g].state = b]
  BY DEF Stopping
<1>2. b \in {"STOPPING", "STOPPED"} /\ (nifi.groups[g].state = "STOPPED" => b = "STOPPED")
  OBVIOUS
<1> HIDE DEF b
<1>3. QED
  BY <1>1, <1>2, StateIsCalm

LEMMA DroppingIsCalm ==
  ASSUME Typed, NEW g \in DOMAIN nifi.groups, nifi' = Dropping(g)
  PROVE  /\ Calmer /\ DOMAIN nifi'.groups = DOMAIN nifi.groups
         /\ nifi'.groups[g].queue # "filled"
         /\ nifi'.groups[g].state = nifi.groups[g].state
<1> DEFINE q == IF nifi.groups[g].queue = "empty" THEN "empty" ELSE "dropping"
<1>1. nifi' = [nifi EXCEPT !.groups[g].queue = q]
  BY DEF Dropping
<1>2. q \in {"empty", "filled", "dropping"} /\ q # "filled"
  OBVIOUS
<1> HIDE DEF q
<1>3. QED
  BY <1>1, <1>2, QueueIsCalm

LEMMA DeletedIsCalm ==
  ASSUME Typed, NEW g \in DOMAIN nifi.groups, nifi' = Deleted(g)
  PROVE  Calmer /\ DOMAIN nifi'.groups = DOMAIN nifi.groups \ {g}
<1>1. /\ IsCanvas(nifi')
      /\ nifi'.services = nifi.services
      /\ nifi'.groups = [x \in DOMAIN nifi.groups \ {g} |-> nifi.groups[x]]
  BY DeletedIs DEF Typed
<1>2. QED
  BY <1>1 DEF Typed, TypeOK, Calmer

LEMMA StopInvariant ==
  ASSUME IInv, StopGroup
  PROVE  IInv'
<1>1. /\ pc = "stop" /\ pc' = "drain" /\ warned' = warned
      /\ UNCHANGED <<start, todo, target, dbcp, failures>>
      /\ \/ nifi' = Stopping(target) /\ trouble' = trouble
         \/ nifi' \in {nifi, Stopping(target)} /\ trouble' = TRUE
  BY DEF StopGroup, GoTo, Answered, Failed
<1>2. target \in DOMAIN nifi.groups /\ todo \subseteq DOMAIN nifi.groups /\ Typed
  BY <1>1 DEF IInv, Targets, Typed, TypeOK
<1>3. Calmer /\ DOMAIN nifi'.groups = DOMAIN nifi.groups
  BY <1>1, <1>2, SameIsCalm, StoppingIsCalm
<1>4. Untroubled'
  BY <1>1, <1>2, StoppingIsCalm DEF IInv, Untroubled
<1>5. <<warned', trouble'>> \in BOOLEAN \X BOOLEAN
  BY <1>1, <1>2 DEF Typed, TypeOK
<1>6. QED
  BY <1>1, <1>2, <1>3, <1>4, <1>5, ClearInvariant

\* Whether NiFi is still at what it was asked.
LEMMA AskedIsBoolean == \A g : Asked(g) \in BOOLEAN
  BY DEF Asked

\* Untroubled': the drop-requests are trouble already if the group still stops.
LEMMA DrainInvariant ==
  ASSUME IInv, DrainQueues
  PROVE  IInv'
<1>1. /\ pc = "drain" /\ pc' = "delete" /\ warned' = warned
      /\ UNCHANGED <<start, todo, target, dbcp, failures>>
      /\ \/ nifi' = Dropping(target) /\ trouble' = (trouble \/ Asked(target))
         \/ nifi' \in {nifi, Dropping(target)} /\ trouble' = TRUE
  BY DEF DrainQueues, GoTo, AnsweredOf, Failed
<1>2. target \in DOMAIN nifi.groups /\ todo \subseteq DOMAIN nifi.groups /\ Typed
  BY <1>1 DEF IInv, Targets, Typed, TypeOK
<1>3. Calmer /\ DOMAIN nifi'.groups = DOMAIN nifi.groups
  BY <1>1, <1>2, SameIsCalm, DroppingIsCalm
<1>4. Untroubled'
  <2> SUFFICES ASSUME ~trouble' PROVE Untroubled'
    BY DEF Untroubled
  <2>1. nifi' = Dropping(target) /\ ~trouble /\ ~Asked(target)
    BY <1>1
  <2>2. nifi.groups[target].state = "STOPPED"
    BY <1>1, <1>2, <2>1 DEF IInv, Untroubled, Asked, Typed, TypeOK, Group
  <2>3. QED
    BY <1>1, <1>2, <2>1, <2>2, DroppingIsCalm DEF IInv, Untroubled
<1>5. <<warned', trouble'>> \in BOOLEAN \X BOOLEAN
  BY <1>1, <1>2, AskedIsBoolean DEF Typed, TypeOK
<1>6. trouble => trouble'
  BY <1>1
<1>7. QED
  BY <1>1, <1>2, <1>3, <1>4, <1>5, <1>6, ClearInvariant

\* Untroubled': only what NiFi has not done yet keeps the group from being deleted.
LEMMA DeleteInvariant ==
  ASSUME IInv, DeleteGroup
  PROVE  IInv'
<1>1. /\ pc = "delete" /\ pc' = "nextGroup"
      /\ UNCHANGED <<start, todo, target, dbcp, failures>>
      /\ trouble' \in {trouble \/ Asked(target), TRUE}
      /\ \/ nifi' = Deleted(target) /\ warned' = warned
         \/ nifi' \in {nifi, Deleted(target)} /\ trouble' = TRUE /\ warned' = TRUE
         \/ ~CanDelete(target) /\ nifi' = nifi /\ warned' = TRUE
  BY DEF DeleteGroup, GoTo, AnsweredOf, Failed
<1>2. /\ target \in DOMAIN nifi.groups /\ todo \subseteq DOMAIN nifi.groups \ {target}
      /\ Typed
  BY <1>1 DEF IInv, Targets, Typed, TypeOK
<1>3. /\ <<warned', trouble'>> \in BOOLEAN \X BOOLEAN
      /\ trouble => trouble'
      /\ ~warned' => ~warned
  <2>1. trouble \in BOOLEAN /\ warned \in BOOLEAN /\ Asked(target) \in BOOLEAN
    BY <1>2, AskedIsBoolean DEF Typed, TypeOK
  <2>2. warned' \in {warned, TRUE}
    BY <1>1
  <2>3. QED
    BY <1>1, <2>1, <2>2
<1>4. Untroubled'
  <2> SUFFICES ASSUME ~trouble' PROVE ~warned'
    BY <1>1 DEF Untroubled
  <2>1. ~trouble /\ ~Asked(target)
    BY <1>1
  <2>2. CanDelete(target)
    BY <1>1, <1>2, <2>1 DEF IInv, Untroubled, Asked, CanDelete, Typed, TypeOK, Group
  <2>3. warned' = warned
    BY <1>1, <2>2
  <2>4. QED
    BY <2>1, <2>3 DEF IInv, Untroubled
<1>5. CASE nifi' = Deleted(target)
  <2>1. Calmer /\ DOMAIN nifi'.groups = DOMAIN nifi.groups \ {target}
    BY <1>2, <1>5, DeletedIsCalm
  <2>2. QED
    BY <1>1, <1>2, <1>3, <1>4, <2>1, ClearInvariant
<1>6. CASE nifi' = nifi /\ warned' = TRUE
  <2>1. Calmer /\ DOMAIN nifi'.groups = DOMAIN nifi.groups
    BY <1>2, <1>6, SameIsCalm
  <2>2. QED
    BY <1>1, <1>2, <1>3, <1>4, <1>6, <2>1, ClearInvariant
<1>7. QED
  BY <1>1, <1>5, <1>6

-----------------------------------------------------------------------------
(* What NiFi does in its own time. *)

LEMMA OwnTime ==
  ASSUME IInv, Calmer, DOMAIN nifi'.groups = DOMAIN nifi.groups,
         UNCHANGED <<start, pc, todo, target, dbcp, warned, trouble, failures>>,
         \A x \in DOMAIN nifi.groups :
           \/ nifi'.groups[x].state = nifi.groups[x].state
           \/ nifi.groups[x].state = "STOPPING" /\ nifi'.groups[x].state = "STOPPED",
         \A x \in DOMAIN nifi.groups :
           nifi.groups[x].state = "STOPPED" /\ nifi.groups[x].queue # "filled" =>
             nifi'.groups[x].queue # "filled"
  PROVE  IInv'
<1>1. Typed'
  BY DEF IInv, Typed, TypeOK, Calmer
<1>2. OwnGroup'
  BY DEF IInv, OwnGroup, Install, Calmer, Clearing, Constructing, Serving, Chaining
<1>3. OwnService' /\ Targets'
  BY DEF IInv, OwnService, Targets, Calmer
<1>4. Untroubled'
  <2>1. pc \in {"drain", "delete"} => target \in DOMAIN nifi.groups
    BY DEF IInv, Targets
  <2>2. QED
    BY <2>1 DEF IInv, Untroubled, Calmer
<1>5. CleanSoFar'
  <2>1. Installed => Installed'
    BY DEF Installed, Install, Calmer
  <2>2. QED
    BY <2>1 DEF IInv, CleanSoFar
<1>6. ServicesCounted'
  BY DEF IInv, ServicesCounted, Services, ServicesGrowByFailureOnly, Calmer
<1>7. QED
  BY <1>1, <1>2, <1>3, <1>4, <1>5, <1>6, CalmerKeeps DEF IInv

LEMMA FlowInvariant ==
  ASSUME IInv, Flow
  PROVE  IInv'
<1>1. PICK g \in DOMAIN nifi.groups :
        /\ nifi.groups[g].state # "STOPPED"
        /\ nifi' = [nifi EXCEPT !.groups[g].queue =
                      IF nifi.groups[g].queue = "empty" THEN "filled" ELSE "empty"]
  BY DEF Flow
<1>2. UNCHANGED <<start, pc, todo, target, dbcp, warned, trouble, failures>>
  BY DEF Flow, history
<1> DEFINE q == IF nifi.groups[g].queue = "empty" THEN "filled" ELSE "empty"
<1>3. Typed /\ q \in {"empty", "filled", "dropping"} /\ nifi' = [nifi EXCEPT !.groups[g].queue = q]
  BY <1>1 DEF IInv
<1> HIDE DEF q
<1>4. /\ Calmer /\ DOMAIN nifi'.groups = DOMAIN nifi.groups
      /\ \A x \in DOMAIN nifi.groups : x # g => nifi'.groups[x] = nifi.groups[x]
      /\ \A x \in DOMAIN nifi.groups : nifi'.groups[x].state = nifi.groups[x].state
  BY <1>3, QueueIsCalm
<1>5. QED
  BY <1>1, <1>2, <1>4, OwnTime

LEMMA WindDownInvariant ==
  ASSUME IInv, WindDown
  PROVE  IInv'
<1>1. PICK g \in DOMAIN nifi.groups :
        nifi.groups[g].state = "STOPPING" /\ nifi' = Stopped(g)
  BY DEF WindDown
<1>2. UNCHANGED <<start, pc, todo, target, dbcp, warned, trouble, failures>>
  BY DEF WindDown, history
<1>3. Typed /\ nifi' = [nifi EXCEPT !.groups[g].state = "STOPPED"]
  BY <1>1 DEF IInv, Stopped
<1>4. /\ Calmer /\ DOMAIN nifi'.groups = DOMAIN nifi.groups
      /\ nifi'.groups[g].state = "STOPPED"
      /\ \A x \in DOMAIN nifi.groups : x # g => nifi'.groups[x] = nifi.groups[x]
      /\ \A x \in DOMAIN nifi.groups : nifi'.groups[x].queue = nifi.groups[x].queue
  BY <1>3, StateIsCalm
<1>5. QED
  BY <1>1, <1>2, <1>4, OwnTime

LEMMA DropFilesInvariant ==
  ASSUME IInv, DropFiles
  PROVE  IInv'
<1>1. PICK g \in DOMAIN nifi.groups : nifi' = Dropped(g)
  BY DEF DropFiles
<1>2. UNCHANGED <<start, pc, todo, target, dbcp, warned, trouble, failures>>
  BY DEF DropFiles, history
<1>3. Typed /\ nifi' = [nifi EXCEPT !.groups[g].queue = "empty"]
  BY <1>1 DEF IInv, Dropped
<1>4. /\ Calmer /\ DOMAIN nifi'.groups = DOMAIN nifi.groups
      /\ nifi'.groups[g].queue = "empty"
      /\ \A x \in DOMAIN nifi.groups : x # g => nifi'.groups[x] = nifi.groups[x]
      /\ \A x \in DOMAIN nifi.groups : nifi'.groups[x].state = nifi.groups[x].state
  BY <1>3, QueueIsCalm
<1>5. QED
  BY <1>2, <1>4, OwnTime

-----------------------------------------------------------------------------
(* The group of this start. *)

\* This start's group appears, empty and stopped.
LEMMA CreateInvariant ==
  ASSUME IInv, CreateGroup
  PROVE  IInv'
<1> DEFINE h == [state |-> "STOPPED", queue |-> "empty", chains |-> <<>>]
           created == [nifi EXCEPT !.groups = With(@, start, h)]
<1>1. /\ pc = "createGroup" /\ UNCHANGED <<start, todo, target, dbcp, failures>>
      /\ \/ nifi' = created /\ pc' = "findService" /\ warned' = warned /\ trouble' = trouble
         \/ nifi' \in {nifi, created} /\ pc' = "ended" /\ warned' = TRUE /\ trouble' = TRUE
  BY DEF CreateGroup, GoTo, Answered, Failed, Raise
<1>2. Typed /\ start \in 1..start /\ start \notin DOMAIN nifi.groups
  BY <1>1, Numbers DEF IInv, OwnGroup, Clearing
<1>3. CASE nifi' = created
  <2>1. h \in Group
    BY DEF Group
  <2>2. GroupBecomes(start, h)
    BY <1>2, <1>3, CreatedIs DEF Typed
  <2>3. /\ IsCanvas(nifi') /\ nifi'.services = nifi.services
        /\ DOMAIN nifi'.groups = DOMAIN nifi.groups \cup {start}
        /\ nifi'.groups[start] = h
        /\ \A x \in DOMAIN nifi.groups : nifi'.groups[x] = nifi.groups[x]
        /\ nifi'.groups \in [DOMAIN nifi'.groups -> Group]
        /\ DOMAIN nifi'.groups \subseteq 1..start
    BY <1>2, <2>1, <2>2, GroupTypes
  <2>4. <<warned', trouble'>> \in BOOLEAN \X BOOLEAN /\ todo \subseteq DOMAIN nifi'.groups
    BY <1>1, <1>2, <2>3 DEF Typed, TypeOK
  <2>5. Typed'
    BY <1>1, <1>2, <2>3, <2>4 DEF Typed, TypeOK, Steps
  <2>6. OwnGroup'
    BY <1>1, <2>3 DEF OwnGroup, Install, Clearing, Constructing, Serving, Chaining
  <2>7. OwnChains'
    BY <2>3 DEF IInv, OwnChains
  <2>8. OwnService' /\ Targets'
    BY <1>1 DEF IInv, OwnService, Targets, Clearing, Serving, Chaining
  <2>9. RunningIsComplete'
    BY <2>3 DEF IInv, RunningIsComplete
  <2>10. WritersServed'
    BY <2>3 DEF IInv, WritersServed
  <2>11. Untroubled'
    BY <1>1 DEF IInv, Untroubled
  <2>12. CleanSoFar'
    BY <1>1, <2>3 DEF IInv, CleanSoFar, Constructing, Serving, Chaining
  <2>13. ServicesCounted'
    BY <1>1, <1>2, <2>3, CountStays DEF IInv, Clearing, Serving
  <2>14. QED
    BY <2>5, <2>6, <2>7, <2>8, <2>9, <2>10, <2>11, <2>12, <2>13 DEF IInv
<1>4. CASE nifi' = nifi /\ pc' = "ended" /\ warned' = TRUE /\ trouble' = TRUE
  <2>1. Typed'
    BY <1>1, <1>4 DEF IInv, Typed, TypeOK, IsCanvas, Steps
  <2>2. OwnGroup' /\ OwnChains'
    BY <1>1, <1>4 DEF IInv, OwnGroup, OwnChains, Clearing, Constructing, Serving, Chaining
  <2>3. OwnService' /\ Targets'
    BY <1>1, <1>4 DEF IInv, OwnService, Targets, Clearing, Serving, Chaining
  <2>4. RunningIsComplete' /\ WritersServed'
    BY <1>4 DEF IInv, RunningIsComplete, WritersServed
  <2>5. Untroubled' /\ CleanSoFar'
    BY <1>4 DEF Untroubled, CleanSoFar
  <2>6. ServicesCounted'
    BY <1>1, <1>2, <1>4, CountStays DEF IInv, Clearing, Serving
  <2>7. QED
    BY <2>1, <2>2, <2>3, <2>4, <2>5, <2>6 DEF IInv
<1>5. QED
  BY <1>1, <1>3, <1>4

-----------------------------------------------------------------------------
(* The calls about services leave the groups alone. *)

LEMMA GroupsStay ==
  ASSUME IInv, nifi'.groups = nifi.groups, start' = start,
         pc \in Constructing \ Chaining,
         pc' \in (Constructing \ {"startGroup"}) \cup {"ended"}
  PROVE  OwnGroup' /\ OwnChains' /\ RunningIsComplete'
<1>1. start \in DOMAIN nifi.groups /\ Install.state = "STOPPED" /\ Install.chains = <<>>
  BY DEF IInv, OwnGroup
<1>2. Install' = Install
  BY DEF Install
<1>3. OwnGroup'
  BY <1>1, <1>2 DEF OwnGroup, Clearing, Constructing, Serving, Chaining
<1>4. OwnChains' /\ RunningIsComplete'
  BY DEF IInv, OwnChains, RunningIsComplete
<1>5. QED
  BY <1>3, <1>4

\* A service no running group uses may become anything.
LEMMA WritersStay ==
  ASSUME IInv, nifi'.groups = nifi.groups, NEW s,
         \A x \in DOMAIN nifi.services \ {s} :
           x \in DOMAIN nifi'.services /\ nifi'.services[x] = nifi.services[x],
         \A g \in DOMAIN nifi.groups : nifi.groups[g].state # "STOPPED" =>
           \A i \in DOMAIN nifi.groups[g].chains :
             nifi.groups[g].chains[i] \notin {None, s} \/ nifi.groups[g].chains[i] = None
  PROVE  WritersServed'
  BY DEF IInv, WritersServed

\* The service of this start is used by nobody who runs, yet.
LEMMA OwnServiceFree ==
  ASSUME IInv, pc \in Constructing, nifi'.groups = nifi.groups,
         \A x \in DOMAIN nifi.services \ {start} :
           x \in DOMAIN nifi'.services /\ nifi'.services[x] = nifi.services[x]
  PROVE  WritersServed'
<1>1. ASSUME NEW g \in DOMAIN nifi.groups, nifi.groups[g].state # "STOPPED",
             NEW i \in DOMAIN nifi.groups[g].chains
      PROVE  nifi.groups[g].chains[i] \notin {None, start} \/ nifi.groups[g].chains[i] = None
  <2>1. g # start
    BY <1>1 DEF IInv, OwnGroup, Install
  <2>2. nifi.groups[g].chains[i] \in {None, g}
    BY DEF IInv, OwnChains
  <2>3. QED
    BY <2>1, <2>2
<1>2. QED
  BY <1>1 DEF IInv, WritersServed

LEMMA FindInvariant ==
  ASSUME IInv, FindService
  PROVE  IInv'
<1>1. /\ pc = "findService" /\ nifi' = nifi
      /\ UNCHANGED <<start, todo, dbcp, failures>>
      /\ \/ /\ target' \in DOMAIN nifi.services /\ pc' = "disable"
            /\ warned' = warned /\ trouble' = trouble
         \/ /\ DOMAIN nifi.services = {} /\ pc' = "createService" /\ target' = target
            /\ warned' = warned /\ trouble' = trouble
         \/ target' = target /\ pc' = "createService" /\ warned' = warned /\ trouble' = TRUE
         \/ target' = target /\ pc' = "ended" /\ warned' = TRUE /\ trouble' = TRUE
  BY DEF FindService, GoTo, Failed, Raise, history
<1>2. Typed /\ start \in Nat /\ failures \in Nat
  BY Numbers DEF IInv
<1>3. target' \in 0..start
  <2>1. target \in 0..start /\ DOMAIN nifi.services \subseteq 1..start
    BY <1>2 DEF Typed, TypeOK
  <2>2. target' = target \/ target' \in DOMAIN nifi.services
    BY <1>1
  <2>3. QED
    BY <1>2, <2>1, <2>2
<1>3a. <<warned', trouble'>> \in BOOLEAN \X BOOLEAN
  BY <1>1, <1>2 DEF Typed, TypeOK
<1>4. Typed'
  BY <1>1, <1>2, <1>3, <1>3a DEF Typed, TypeOK, Steps
<1>5. OwnGroup' /\ OwnChains' /\ RunningIsComplete'
  BY <1>1, GroupsStay DEF Constructing, Serving, Chaining
<1>6. WritersServed'
  BY <1>1 DEF IInv, WritersServed
<1>7. OwnService' /\ Targets'
  BY <1>1 DEF IInv, OwnService, Targets, Clearing, Serving, Chaining
<1>8. Untroubled' /\ CleanSoFar'
  BY <1>1 DEF IInv, Untroubled, CleanSoFar, Constructing, Serving, Chaining
<1>9. pc' = "createService" /\ ~trouble' => Services <= failures
  <2>1. DOMAIN nifi.services = {} => Services = 0
    BY FS_EmptySet DEF Services
  <2>2. QED
    BY <1>1, <1>2, <2>1
<1>10. ServicesCounted'
  BY <1>1, <1>2, <1>9, CountStays DEF IInv, Clearing, Serving
<1>11. QED
  BY <1>4, <1>5, <1>6, <1>7, <1>8, <1>10 DEF IInv

\* A call that changes the state of service s, of an earlier start or of this one.
LEMMA ServiceCall ==
  ASSUME IInv, NEW s \in 1..start,
         NEW state \in {"DISABLED", "ENABLING", "ENABLED"}, nifi' = ServiceIn(s, state)
  PROVE  /\ IsCanvas(nifi') /\ nifi'.groups = nifi.groups
         /\ DOMAIN nifi'.services = DOMAIN nifi.services \cup {s}
         /\ nifi'.services[s] = state
         /\ \A x \in DOMAIN nifi.services \ {s} : nifi'.services[x] = nifi.services[x]
         /\ nifi'.services \in
              [DOMAIN nifi'.services -> {"DISABLED", "ENABLING", "ENABLED"}]
         /\ DOMAIN nifi'.services \subseteq 1..start
<1>1. ServiceBecomes(s, state)
  BY ServiceInIs DEF IInv, Typed
<1>2. QED
  BY <1>1, ServiceTypes DEF IInv

LEMMA DisableInvariant ==
  ASSUME IInv, DisableService
  PROVE  IInv'
<1>1. /\ pc = "disable" /\ UNCHANGED <<start, todo, target, dbcp, failures>>
      /\ \/ nifi' = nifi
         \/ CanDisable(target) /\ nifi' = ServiceIn(target, "DISABLED")
      /\ \/ /\ CanDisable(target) => nifi' = ServiceIn(target, "DISABLED")
            /\ pc' = "deleteService" /\ warned' = warned /\ trouble' = trouble
         \/ pc' = "deleteService" /\ warned' = warned /\ trouble' = TRUE
         \/ pc' = "createService" /\ warned' \in {warned, TRUE} /\ trouble' = TRUE
  BY DEF DisableService, GoTo, Answered, Failed
<1>2. Typed /\ target \in DOMAIN nifi.services /\ target \in 1..start /\ target # None
  BY <1>1, Numbers DEF IInv, Targets, Typed, TypeOK, None
<1>3. pc \in Constructing \ Chaining /\ pc' \in Serving
  BY <1>1 DEF Constructing, Serving, Chaining
<1>4. CanDisable(target) /\ nifi' = ServiceIn(target, "DISABLED") =>
        nifi'.services[target] = "DISABLED"
  BY <1>2, <1>3, ServiceCall
<1>5. /\ IsCanvas(nifi') /\ nifi'.groups = nifi.groups
      /\ DOMAIN nifi'.services = DOMAIN nifi.services
      /\ nifi'.services \in
              [DOMAIN nifi.services -> {"DISABLED", "ENABLING", "ENABLED"}]
      /\ \A x \in DOMAIN nifi.services \ {target} : nifi'.services[x] = nifi.services[x]
  <2>1. CASE nifi' = nifi
    BY <1>2, <2>1 DEF Typed, TypeOK
  <2>2. CASE nifi' = ServiceIn(target, "DISABLED")
    BY <1>2, <1>3, <2>2, ServiceCall
  <2>3. QED
    BY <1>1, <2>1, <2>2
<1>6. <<warned', trouble'>> \in BOOLEAN \X BOOLEAN
  BY <1>1, <1>2 DEF Typed, TypeOK
<1>7. Typed'
  BY <1>1, <1>2, <1>3, <1>5, <1>6 DEF Typed, TypeOK, Steps, Serving
<1>8. OwnGroup' /\ OwnChains' /\ RunningIsComplete'
  BY <1>1, <1>3, <1>5, GroupsStay DEF Constructing, Serving
<1>9. WritersServed'
  <2>1. CASE nifi' = nifi
    BY <2>1 DEF IInv, WritersServed
  <2>2. CASE CanDisable(target)
    <3>1. \A g \in DOMAIN nifi.groups : nifi.groups[g].state # "STOPPED" =>
            \A i \in DOMAIN nifi.groups[g].chains :
              nifi.groups[g].chains[i] \notin {None, target} \/ nifi.groups[g].chains[i] = None
      BY <1>2, <2>2 DEF CanDisable, ServicesOf
    <3>2. QED
      BY <1>5, <3>1, WritersStay
  <2>3. QED
    BY <1>1, <2>1, <2>2
<1>10. OwnService' /\ Targets'
  BY <1>1, <1>2, <1>5 DEF IInv, OwnService, Targets, Clearing, Serving, Chaining
<1>11. Untroubled'
  <2>1. ~trouble => ~warned /\ DOMAIN nifi.groups = {start} /\ Install.state = "STOPPED"
    BY <1>3 DEF IInv, Untroubled, CleanSoFar, OwnGroup
  <2>2. ~trouble => CanDisable(target)
    BY <2>1 DEF CanDisable, Install
  <2>3. CASE /\ CanDisable(target) => nifi' = ServiceIn(target, "DISABLED")
             /\ warned' = warned /\ trouble' = trouble
    BY <1>1, <1>4, <2>1, <2>2, <2>3 DEF Untroubled
  <2>4. CASE trouble' = TRUE
    BY <2>4 DEF Untroubled
  <2>5. QED
    BY <1>1, <2>3, <2>4
<1>12. CleanSoFar'
  <2>1. ~warned => DOMAIN nifi.groups = {start}
    BY <1>3 DEF IInv, CleanSoFar
  <2>2. warned' = warned \/ warned' = TRUE
    BY <1>1
  <2>3. pc' \in {"deleteService", "createService"} /\ start' = start
    BY <1>1
  <2>4. QED
    BY <1>5, <2>1, <2>2, <2>3 DEF CleanSoFar, Constructing, Serving, Chaining
<1>13. ServicesCounted'
  BY <1>1, <1>2, <1>5, CountStays DEF IInv, Clearing, Serving
<1>14. QED
  BY <1>7, <1>8, <1>9, <1>10, <1>11, <1>12, <1>13 DEF IInv

LEMMA DeleteServiceInvariant ==
  ASSUME IInv, DeleteService
  PROVE  IInv'
<1>1. /\ pc = "deleteService" /\ pc' = "createService"
      /\ UNCHANGED <<start, todo, target, dbcp, failures>>
      /\ \/ nifi' = nifi
         \/ nifi.services[target] = "DISABLED" /\ nifi' = ServiceDeleted(target)
      /\ \/ /\ nifi.services[target] = "DISABLED" => nifi' = ServiceDeleted(target)
            /\ warned' = warned /\ trouble' = trouble
         \/ warned' \in {warned, TRUE} /\ trouble' = TRUE
  BY DEF DeleteService, GoTo, Answered, Failed
<1>2. /\ Typed /\ target \in DOMAIN nifi.services /\ dbcp = None /\ dbcp' = None
      /\ None \notin DOMAIN nifi.services
      /\ pc \in Constructing \ Chaining /\ pc' \in Constructing \ Chaining
  BY <1>1 DEF IInv, Targets, OwnService, Constructing, Serving, Chaining, Typed, TypeOK, None
<1>3. nifi' = ServiceDeleted(target) =>
        DOMAIN nifi'.services = DOMAIN nifi.services \ {target}
  BY <1>2, ServiceDeletedIs DEF Typed
<1>4. /\ IsCanvas(nifi') /\ nifi'.groups = nifi.groups
      /\ DOMAIN nifi'.services \subseteq DOMAIN nifi.services
      /\ nifi'.services \in
              [DOMAIN nifi'.services -> {"DISABLED", "ENABLING", "ENABLED"}]
      /\ \A x \in DOMAIN nifi'.services : nifi'.services[x] = nifi.services[x]
      /\ \A x \in DOMAIN nifi.services :
           nifi.services[x] = "ENABLED" => x \in DOMAIN nifi'.services
  <2>1. CASE nifi' = nifi
    BY <1>2, <2>1 DEF Typed, TypeOK
  <2>2. CASE nifi.services[target] = "DISABLED" /\ nifi' = ServiceDeleted(target)
    <3>1. /\ IsCanvas(nifi') /\ nifi'.groups = nifi.groups
          /\ nifi'.services = [x \in DOMAIN nifi.services \ {target} |-> nifi.services[x]]
      BY <1>2, <2>2, ServiceDeletedIs DEF Typed
    <3>2. QED
      BY <1>2, <2>2, <3>1 DEF Typed, TypeOK
  <2>3. QED
    BY <1>1, <2>1, <2>2
<1>5. <<warned', trouble'>> \in BOOLEAN \X BOOLEAN
  BY <1>1, <1>2 DEF Typed, TypeOK
<1>6. Typed'
  BY <1>1, <1>2, <1>4, <1>5 DEF Typed, TypeOK, Steps
<1>7. OwnGroup' /\ OwnChains' /\ RunningIsComplete'
  BY <1>1, <1>2, <1>4, GroupsStay DEF Constructing, Serving, Chaining
<1>8. WritersServed'
  BY <1>4 DEF IInv, WritersServed
<1>9. OwnService' /\ Targets'
  BY <1>1, <1>2 DEF OwnService, Targets, Clearing, Serving, Chaining
<1>10. Untroubled'
  <2>1. \/ trouble' = TRUE
        \/ trouble' = trouble /\ warned' = warned
    BY <1>1, Zenon
  <2>2. pc' = "createService"
    BY <1>1
  <2>3. QED
    BY <2>1, <2>2 DEF IInv, Untroubled
<1>11. CleanSoFar'
  <2>1. ~warned => DOMAIN nifi.groups = {start}
    BY <1>2 DEF IInv, CleanSoFar
  <2>2. warned' = warned \/ warned' = TRUE
    BY <1>1
  <2>3. pc' = "createService" /\ start' = start
    BY <1>1
  <2>4. QED
    BY <1>4, <2>1, <2>2, <2>3 DEF CleanSoFar, Constructing, Serving, Chaining
<1>12. ServicesCounted'
  <2>1. /\ Services \in Nat /\ failures \in Nat /\ IsFiniteSet(DOMAIN nifi.services)
        /\ Services <= failures + 1
    BY <1>1, <1>2, Numbers DEF IInv, ServicesCounted, Serving
  <2>2. Services' \in Nat /\ Services' <= Services
    <3>1. DOMAIN nifi'.services \in SUBSET DOMAIN nifi.services
      BY <1>4
    <3>2. QED
      BY <2>1, <3>1, FS_Subset, FS_CardinalityType DEF Services
  <2>3. ~trouble' => Services' <= failures
    <3> SUFFICES ASSUME ~trouble' PROVE Services' <= failures
      OBVIOUS
    <3>1. CASE trouble' = TRUE
      BY <3>1
    <3>2. CASE /\ nifi.services[target] = "DISABLED" => nifi' = ServiceDeleted(target)
               /\ trouble' = trouble
      <4>1. DOMAIN nifi'.services = DOMAIN nifi.services \ {target}
        BY <1>1, <1>3, <3>2 DEF IInv, Untroubled
      <4>2. Services' = Services - 1
        BY <1>2, <2>1, <4>1, FS_RemoveElement DEF Services
      <4>3. QED
        BY <2>1, <4>2
    <3>3. QED
      BY <1>1, <3>1, <3>2
  <2>4. ServicesGrowByFailureOnly'
    <3>1. failures' = failures /\ Services' <= failures + 1
      BY <1>1, <2>1, <2>2
    <3>2. QED
      BY <2>1, <2>2, <3>1 DEF ServicesGrowByFailureOnly, Services
  <2>5. failures' = failures /\ Services' <= failures' + 1
    BY <1>1, <2>1, <2>2
  <2>6. QED
    BY <2>3, <2>4, <2>5 DEF ServicesCounted
<1>13. QED
  BY <1>6, <1>7, <1>8, <1>9, <1>10, <1>11, <1>12 DEF IInv

\* The installer goes on without a service, and its log is not clean.
LEMMA FallBackInvariant ==
  ASSUME IInv, pc \in {"createService", "enable", "poll"}, FallBack,
         trouble' = TRUE, failures' = failures,
         \/ nifi' = nifi
         \/ \E state \in {"DISABLED", "ENABLING"} : nifi' = ServiceIn(start, state),
         ServicesCounted'
  PROVE  IInv'
<1>1. /\ dbcp' = None /\ pc' = "build" /\ warned' = TRUE /\ UNCHANGED <<start, todo, target>>
      /\ pc \in Constructing \ Chaining
  BY DEF FallBack, GoTo, Constructing, Serving, Chaining
<1>2. Typed /\ start \in 1..start /\ start # None
  BY Numbers DEF IInv
<1>3. /\ IsCanvas(nifi') /\ nifi'.groups = nifi.groups
      /\ DOMAIN nifi'.services \subseteq 1..start
      /\ nifi'.services \in
              [DOMAIN nifi'.services -> {"DISABLED", "ENABLING", "ENABLED"}]
      /\ \A x \in DOMAIN nifi.services \ {start} :
           x \in DOMAIN nifi'.services /\ nifi'.services[x] = nifi.services[x]
  <2>1. CASE nifi' = nifi
    BY <1>2, <2>1 DEF Typed, TypeOK
  <2>2. CASE \E state \in {"DISABLED", "ENABLING"} : nifi' = ServiceIn(start, state)
    BY <1>1, <1>2, <2>2, ServiceCall
  <2>3. QED
    BY <2>1, <2>2
<1>4. OwnGroup' /\ OwnChains' /\ RunningIsComplete'
  BY <1>1, <1>3, GroupsStay DEF Constructing, Serving, Chaining
<1>5. start \in DOMAIN nifi.groups
  BY <1>1 DEF IInv, OwnGroup
<1>6. Typed'
  BY <1>1, <1>2, <1>3, <1>5 DEF Typed, TypeOK, Steps
<1>7. WritersServed'
  BY <1>1, <1>3, OwnServiceFree
<1>8. OwnService' /\ Targets'
  BY <1>1, <1>2 DEF OwnService, Targets, Clearing, Serving, Chaining
<1>9. Untroubled' /\ CleanSoFar'
  BY <1>1 DEF Untroubled, CleanSoFar
<1>10. QED
  BY <1>4, <1>6, <1>7, <1>8, <1>9 DEF IInv

LEMMA CreateServiceInvariant ==
  ASSUME IInv, CreateService
  PROVE  IInv'
<1>1. /\ pc = "createService" /\ failures' = failures
      /\ \/ /\ nifi' = ServiceIn(start, "DISABLED") /\ trouble' = trouble
            /\ dbcp' = start /\ pc' = "enable"
            /\ UNCHANGED <<start, todo, target, warned>>
         \/ nifi' \in {nifi, ServiceIn(start, "DISABLED")} /\ trouble' = TRUE /\ FallBack
  BY DEF CreateService, GoTo, Answered, Failed
<1>2. /\ Typed /\ start \in 1..start /\ start # None
      /\ Services \in Nat /\ failures \in Nat /\ IsFiniteSet(DOMAIN nifi.services)
      /\ pc \in Constructing \ Chaining
  BY <1>1, Numbers DEF IInv, Constructing, Serving, Chaining
<1>3. ServicesCounted'
  <2>1. Services <= failures + 1 /\ (~trouble => Services <= failures)
    BY <1>1 DEF IInv, ServicesCounted, Serving
  <2>2. \/ DOMAIN nifi'.services = DOMAIN nifi.services
        \/ DOMAIN nifi'.services = DOMAIN nifi.services \cup {start}
    BY <1>1, <1>2, ServiceCall
  <2>3. Services' \in Nat /\ Services' <= Services + 1
    <3>1. CASE DOMAIN nifi'.services = DOMAIN nifi.services
      BY <1>2, <3>1 DEF Services
    <3>2. CASE DOMAIN nifi'.services = DOMAIN nifi.services \cup {start}
      BY <1>2, <3>2, FS_AddElement DEF Services
    <3>3. QED
      BY <2>2, <3>1, <3>2
  <2>4. trouble' = trouble \/ trouble' = TRUE
    BY <1>1
  <2>5. Services' <= failures' + 1 + (IF trouble' THEN 1 ELSE 0)
    BY <1>1, <1>2, <2>1, <2>3, <2>4
  <2>6. pc' \notin Clearing \cup Serving
    BY <1>1 DEF FallBack, GoTo, Clearing, Serving
  <2>7. QED
    BY <2>5, <2>6 DEF ServicesCounted, ServicesGrowByFailureOnly, Services, Serving
<1>4. CASE /\ nifi' = ServiceIn(start, "DISABLED") /\ trouble' = trouble
           /\ dbcp' = start /\ pc' = "enable"
           /\ UNCHANGED <<start, todo, target, warned>>
  <2>1. /\ IsCanvas(nifi') /\ nifi'.groups = nifi.groups
        /\ DOMAIN nifi'.services = DOMAIN nifi.services \cup {start}
        /\ \A x \in DOMAIN nifi.services \ {start} : nifi'.services[x] = nifi.services[x]
        /\ nifi'.services \in
             [DOMAIN nifi'.services -> {"DISABLED", "ENABLING", "ENABLED"}]
        /\ DOMAIN nifi'.services \subseteq 1..start
    BY <1>2, <1>4, ServiceCall
  <2>2. Typed'
    BY <1>1, <1>2, <1>4, <2>1 DEF Typed, TypeOK, Steps
  <2>3. OwnGroup' /\ OwnChains' /\ RunningIsComplete'
    BY <1>2, <1>4, <2>1, GroupsStay DEF Constructing, Serving, Chaining
  <2>4. WritersServed'
    BY <1>2, <2>1, OwnServiceFree
  <2>5. OwnService' /\ Targets'
    BY <1>4 DEF OwnService, Targets, Clearing, Serving, Chaining
  <2>6. Untroubled' /\ CleanSoFar'
    BY <1>2, <1>4, <2>1 DEF IInv, Untroubled, CleanSoFar, Constructing, Serving, Chaining
  <2>7. QED
    BY <1>3, <2>2, <2>3, <2>4, <2>5, <2>6 DEF IInv
<1>5. CASE nifi' \in {nifi, ServiceIn(start, "DISABLED")} /\ trouble' = TRUE /\ FallBack
  BY <1>1, <1>3, <1>5, FallBackInvariant
<1>6. QED
  BY <1>1, <1>4, <1>5

LEMMA EnableInvariant ==
  ASSUME IInv, EnableService
  PROVE  IInv'
<1>1. /\ pc = "enable" /\ dbcp = start /\ failures' = failures
      /\ \/ /\ nifi' = ServiceIn(start, "ENABLING") /\ trouble' = trouble
            /\ pc' = "poll" /\ UNCHANGED <<start, todo, target, dbcp, warned>>
         \/ nifi' \in {nifi, ServiceIn(start, "ENABLING")} /\ trouble' = TRUE /\ FallBack
  BY DEF EnableService, GoTo, Answered, Failed, IInv, OwnService
<1>2. /\ Typed /\ start \in 1..start /\ start # None /\ start \in DOMAIN nifi.services
      /\ pc \in Constructing \ Chaining
  BY <1>1, Numbers DEF IInv, Typed, TypeOK, Constructing, Serving, Chaining
<1>3. DOMAIN nifi'.services = DOMAIN nifi.services
  BY <1>1, <1>2, ServiceCall
<1>4. ServicesCounted'
  <2>1. pc' \notin Clearing \cup Serving /\ trouble' \in {trouble, TRUE}
    BY <1>1 DEF FallBack, GoTo, Clearing, Serving
  <2>2. QED
    BY <1>1, <1>2, <1>3, <2>1, CountStays DEF IInv, Serving
<1>5. CASE /\ nifi' = ServiceIn(start, "ENABLING") /\ trouble' = trouble
           /\ pc' = "poll" /\ UNCHANGED <<start, todo, target, dbcp, warned>>
  <2>1. /\ IsCanvas(nifi') /\ nifi'.groups = nifi.groups
        /\ \A x \in DOMAIN nifi.services \ {start} : nifi'.services[x] = nifi.services[x]
        /\ nifi'.services \in
             [DOMAIN nifi'.services -> {"DISABLED", "ENABLING", "ENABLED"}]
        /\ DOMAIN nifi'.services \subseteq 1..start
    BY <1>2, <1>5, ServiceCall
  <2>2. Typed'
    BY <1>1, <1>2, <1>3, <1>5, <2>1 DEF Typed, TypeOK, Steps
  <2>3. OwnGroup' /\ OwnChains' /\ RunningIsComplete'
    BY <1>2, <1>5, <2>1, GroupsStay DEF Constructing, Serving, Chaining
  <2>4. WritersServed'
    BY <1>2, <1>3, <2>1, OwnServiceFree
  <2>5. OwnService' /\ Targets'
    BY <1>1, <1>5 DEF OwnService, Targets, Clearing, Serving, Chaining
  <2>6. Untroubled' /\ CleanSoFar'
    BY <1>2, <1>5, <2>1 DEF IInv, Untroubled, CleanSoFar, Constructing, Serving, Chaining
  <2>7. QED
    BY <1>4, <2>2, <2>3, <2>4, <2>5, <2>6 DEF IInv
<1>6. CASE nifi' \in {nifi, ServiceIn(start, "ENABLING")} /\ trouble' = TRUE /\ FallBack
  BY <1>1, <1>4, <1>6, FallBackInvariant
<1>7. QED
  BY <1>1, <1>5, <1>6

LEMMA PollInvariant ==
  ASSUME IInv, Poll
  PROVE  IInv'
<1>1. /\ pc = "poll" /\ dbcp = start /\ failures' = failures /\ nifi' = nifi
      /\ \/ /\ nifi.services[start] = "ENABLED" /\ trouble' = trouble
            /\ pc' = "build" /\ UNCHANGED <<start, todo, target, dbcp, warned>>
         \/ trouble' = TRUE /\ FallBack
  BY DEF Poll, GoTo, Answered, Failed, IInv, OwnService
<1>2. /\ Typed /\ start \in DOMAIN nifi.groups
      /\ pc \in Constructing \ Chaining
  BY <1>1 DEF IInv, OwnGroup, Constructing, Serving, Chaining
<1>3. ServicesCounted'
  <2>1. pc' \notin Clearing \cup Serving /\ trouble' \in {trouble, TRUE}
    BY <1>1 DEF FallBack, GoTo, Clearing, Serving
  <2>2. QED
    BY <1>1, <1>2, <2>1, CountStays DEF IInv, Serving
<1>4. CASE /\ nifi.services[start] = "ENABLED" /\ trouble' = trouble
           /\ pc' = "build" /\ UNCHANGED <<start, todo, target, dbcp, warned>>
  <2>1. Typed'
    BY <1>1, <1>2, <1>4 DEF Typed, TypeOK, Steps
  <2>2. OwnGroup' /\ OwnChains' /\ RunningIsComplete'
    BY <1>1, <1>2, <1>4, GroupsStay DEF Constructing, Serving, Chaining
  <2>3. WritersServed'
    BY <1>1 DEF IInv, WritersServed
  <2>4. OwnService' /\ Targets'
    BY <1>1, <1>4 DEF OwnService, Targets, Clearing, Serving, Chaining
  <2>5. Untroubled' /\ CleanSoFar'
    BY <1>1, <1>2, <1>4 DEF IInv, Untroubled, CleanSoFar, Constructing, Serving, Chaining
  <2>6. QED
    BY <1>3, <2>1, <2>2, <2>3, <2>4, <2>5 DEF IInv
<1>5. CASE trouble' = TRUE /\ FallBack
  BY <1>1, <1>3, <1>5, FallBackInvariant
<1>6. QED
  BY <1>1, <1>4, <1>5

LEMMA EnabledInvariant ==
  ASSUME IInv, Enabled
  PROVE  IInv'
<1>1. PICK s \in DOMAIN nifi.services :
        nifi.services[s] = "ENABLING" /\ nifi' = ServiceIn(s, "ENABLED")
  BY DEF Enabled
<1>2. UNCHANGED <<start, pc, todo, target, dbcp, warned, trouble, failures>>
  BY DEF Enabled, history
<1>3. Typed /\ s \in 1..start
  BY DEF IInv, Typed, TypeOK
<1>4. /\ IsCanvas(nifi') /\ nifi'.groups = nifi.groups
      /\ DOMAIN nifi'.services = DOMAIN nifi.services
      /\ nifi'.services[s] = "ENABLED"
      /\ \A x \in DOMAIN nifi.services \ {s} : nifi'.services[x] = nifi.services[x]
      /\ nifi'.services \in
           [DOMAIN nifi'.services -> {"DISABLED", "ENABLING", "ENABLED"}]
  BY <1>1, <1>3, ServiceCall
<1>5. Typed'
  BY <1>2, <1>3, <1>4 DEF Typed, TypeOK
<1>6. OwnGroup' /\ OwnChains' /\ RunningIsComplete'
  BY <1>2, <1>4 DEF IInv, OwnGroup, Install, OwnChains, RunningIsComplete
<1>7. WritersServed'
  BY <1>1, <1>4 DEF IInv, WritersServed
<1>8. OwnService' /\ Targets'
  <2>1. dbcp = start => start \in DOMAIN nifi.services
    BY <1>3, Numbers DEF Typed, TypeOK
  <2>2. QED
    BY <1>1, <1>2, <1>4, <2>1 DEF IInv, OwnService, Targets
<1>9. Untroubled'
  <2>1. CanDelete(target)' = CanDelete(target)
    BY <1>2, <1>4 DEF CanDelete
  <2>2. pc = "deleteService" /\ ~trouble => target # s /\ target \in DOMAIN nifi.services
    BY <1>1 DEF IInv, Untroubled, Targets
  <2>3. QED
    BY <1>2, <1>4, <2>1, <2>2 DEF IInv, Untroubled
<1>10. CleanSoFar'
  <2>1. Installed => Installed'
    BY <1>1, <1>2, <1>4 DEF Installed, Install
  <2>2. QED
    BY <1>2, <1>4, <2>1 DEF IInv, CleanSoFar
<1>11. ServicesCounted'
  BY <1>2, <1>4 DEF IInv, ServicesCounted, Services, ServicesGrowByFailureOnly
<1>12. QED
  BY <1>5, <1>6, <1>7, <1>8, <1>9, <1>10, <1>11 DEF IInv

\* The script is over, and the canvas is left as it is.
LEMMA RaiseInvariant ==
  ASSUME IInv, pc = "build", Raise, nifi' = nifi, trouble' = TRUE, failures' = failures
  PROVE  IInv'
<1>1. pc' = "ended" /\ warned' = TRUE /\ UNCHANGED <<start, todo, target, dbcp>>
  BY DEF Raise, GoTo
<1>2. Typed
  BY DEF IInv
<1>3. Typed'
  BY <1>1, <1>2 DEF Typed, TypeOK, Steps
<1>4. OwnGroup' /\ OwnChains' /\ RunningIsComplete'
  BY <1>1 DEF IInv, OwnGroup, OwnChains, RunningIsComplete, Clearing, Constructing,
     Serving, Chaining
<1>5. WritersServed'
  BY DEF IInv, WritersServed
<1>6. OwnService' /\ Targets'
  BY <1>1 DEF IInv, OwnService, Targets, Clearing, Serving, Chaining
<1>7. Untroubled' /\ CleanSoFar'
  BY <1>1 DEF Untroubled, CleanSoFar
<1>8. ServicesCounted'
  BY <1>1, <1>2, CountStays DEF IInv, Clearing, Serving
<1>9. QED
  BY <1>3, <1>4, <1>5, <1>6, <1>7, <1>8 DEF IInv

\* One more chain in the group of this start.
LEMMA BuildInvariant ==
  ASSUME IInv, BuildChain
  PROVE  IInv'
<1> DEFINE old == Install.chains
           n == Len(old) + 1
           sink == IF Chains[n] = "KOERI" THEN None ELSE dbcp
           h == [state |-> Install.state, queue |-> Install.queue,
                 chains |-> Append(old, sink)]
<1>1. /\ pc = "build" /\ failures' = failures
      /\ \/ /\ nifi' = [nifi EXCEPT !.groups[start].chains = Append(old, sink)]
            /\ trouble' = trouble
            /\ pc' = IF n = Len(Chains) THEN "startGroup" ELSE "build"
            /\ UNCHANGED <<start, todo, target, dbcp, warned>>
         \/ nifi' = nifi /\ trouble' = TRUE /\ Raise
  BY DEF BuildChain, Install, GoTo, Answered, Failed
<1>2. /\ Typed /\ start \in 1..start /\ start # None /\ start \in DOMAIN nifi.groups
      /\ dbcp \in {None, start} /\ start \in Starts
      /\ pc \in Constructing /\ pc \in Chaining
  BY <1>1, Numbers DEF IInv, OwnGroup, OwnService, Typed, TypeOK, Constructing, Serving, Chaining
<1>3. Install \in Group /\ old \in Seq(Starts \cup {None}) /\ Install.state = "STOPPED"
  BY <1>2 DEF IInv, OwnGroup, Typed, TypeOK, Group, Install
<1>4. n \in 1..4 /\ Len(Chains) = 4 /\ sink = (IF n = 4 THEN None ELSE dbcp)
  BY <1>1, <1>3 DEF IInv, OwnGroup, Chains
<1>5. CASE /\ nifi' = [nifi EXCEPT !.groups[start].chains = Append(old, sink)]
           /\ trouble' = trouble
           /\ pc' = IF n = Len(Chains) THEN "startGroup" ELSE "build"
           /\ UNCHANGED <<start, todo, target, dbcp, warned>>
  <2>1. /\ Append(old, sink) \in Seq(Starts \cup {None})
        /\ Len(Append(old, sink)) = n
        /\ \A i \in 1..Len(old) : Append(old, sink)[i] = old[i]
        /\ Append(old, sink)[n] = sink
    BY <1>2, <1>3, <1>4
  <2>2. h \in Group
    BY <1>3, <2>1 DEF Group
  <2>3. GroupBecomes(start, h)
    BY <1>2, <1>5, FieldIs DEF Install
  <2>4. /\ IsCanvas(nifi') /\ nifi'.services = nifi.services
        /\ DOMAIN nifi'.groups = DOMAIN nifi.groups
        /\ nifi'.groups[start] = h
        /\ \A x \in DOMAIN nifi.groups \ {start} : nifi'.groups[x] = nifi.groups[x]
        /\ nifi'.groups \in [DOMAIN nifi'.groups -> Group]
        /\ DOMAIN nifi'.groups \subseteq 1..start
    BY <1>2, <2>2, <2>3, GroupTypes
  <2>5. pc' \in Chaining /\ (pc' = "startGroup" <=> n = 4)
    BY <1>4, <1>5 DEF Chaining
  <2>6. Typed'
    <3>1. /\ UNCHANGED <<start, todo, target, dbcp, warned, trouble>> /\ failures' = failures
          /\ pc' \in Steps
      BY <1>1, <1>5, <2>5 DEF Steps, Chaining
    <3>2. QED
      BY <1>2, <2>4, <3>1 DEF Typed, TypeOK
  <2>7. Install' = h
    BY <1>5, <2>4 DEF Install
  <2>8. \A i \in 1..n : h.chains[i] = IF i = 4 THEN None ELSE dbcp
    <3>1. \A i \in 1..Len(old) : old[i] = IF i = 4 THEN None ELSE dbcp
      BY <1>2 DEF IInv, OwnGroup
    <3>2. QED
      BY <1>3, <1>4, <2>1, <3>1
  <2>9. OwnGroup'
    <3>1. start \in DOMAIN nifi'.groups /\ h.state = "STOPPED" /\ Len(h.chains) = n
      BY <1>2, <1>3, <2>1, <2>4
    <3>2. (pc' = "build" => n < 4) /\ (pc' = "startGroup" => n = 4)
      BY <1>4, <2>5 DEF Chaining
    <3>3. start' = start /\ dbcp' = dbcp
      BY <1>5
    <3>4. QED
      BY <2>5, <2>7, <2>8, <3>1, <3>2, <3>3 DEF OwnGroup, Clearing, Constructing, Serving, Chaining
  <2>10. OwnChains'
    <3>1. \A i \in DOMAIN h.chains : h.chains[i] \in {None, start}
      BY <1>2, <2>1, <2>8
    <3>2. QED
      BY <2>4, <3>1 DEF IInv, OwnChains
  <2>11. OwnService' /\ Targets'
    BY <1>2, <1>5, <2>4, <2>5 DEF IInv, OwnService, Targets, Clearing, Serving, Chaining
  <2>12. RunningIsComplete'
    BY <1>3, <2>4 DEF IInv, RunningIsComplete
  <2>13. WritersServed'
    BY <1>3, <2>4 DEF IInv, WritersServed
  <2>14. Untroubled' /\ CleanSoFar'
    BY <1>2, <1>5, <2>4, <2>5 DEF IInv, Untroubled, CleanSoFar, Constructing, Serving, Chaining
  <2>15. ServicesCounted'
    BY <1>1, <1>2, <1>5, <2>4, <2>5, CountStays DEF IInv, Clearing, Serving, Chaining
  <2>16. QED
    BY <2>6, <2>9, <2>10, <2>11, <2>12, <2>13, <2>14, <2>15 DEF IInv
<1>6. CASE nifi' = nifi /\ trouble' = TRUE /\ Raise
  BY <1>1, <1>6, RaiseInvariant
<1>7. QED
  BY <1>1, <1>5, <1>6

\* The group of this start has all its chains and may run.
LEMMA StartGroupInvariant ==
  ASSUME IInv, StartGroup
  PROVE  IInv'
<1> DEFINE h == [state |-> "RUNNING", queue |-> Install.queue, chains |-> Install.chains]
           started == [nifi EXCEPT !.groups[start].state = "RUNNING"]
<1>1. /\ pc = "startGroup" /\ pc' = "ended" /\ failures' = failures
      /\ UNCHANGED <<start, todo, target, dbcp>>
      /\ \/ nifi' = started /\ trouble' = trouble /\ warned' = warned
         \/ nifi' \in {nifi, started} /\ trouble' = TRUE /\ warned' = TRUE
  BY DEF StartGroup, GoTo, Answered, Failed
<1>2. /\ Typed /\ start \in 1..start /\ start # None /\ start \in DOMAIN nifi.groups
      /\ dbcp \in {None, start}
      /\ dbcp = start => start \in DOMAIN nifi.services /\ nifi.services[start] = "ENABLED"
      /\ pc \in Constructing /\ pc \in Chaining
  BY <1>1, Numbers DEF IInv, OwnGroup, OwnService, Typed, TypeOK, Constructing, Serving, Chaining
<1>3. /\ Install \in Group /\ Len(Install.chains) = 4
      /\ Install.chains \in Seq(Starts \cup {None})
      /\ \A i \in 1..4 : Install.chains[i] = IF i = 4 THEN None ELSE dbcp
  BY <1>1, <1>2 DEF IInv, OwnGroup, Typed, TypeOK, Group, Install
<1>4. h \in Group
  BY <1>3 DEF Group
<1>5. /\ IsCanvas(nifi') /\ nifi'.services = nifi.services
      /\ DOMAIN nifi'.groups = DOMAIN nifi.groups
      /\ \A x \in DOMAIN nifi.groups \ {start} : nifi'.groups[x] = nifi.groups[x]
      /\ nifi'.groups[start].chains = Install.chains
      /\ nifi'.groups \in [DOMAIN nifi'.groups -> Group]
      /\ nifi' = started => nifi'.groups[start] = h
  <2>1. ASSUME nifi' = started
        PROVE  /\ IsCanvas(nifi') /\ nifi'.services = nifi.services
               /\ DOMAIN nifi'.groups = DOMAIN nifi.groups
               /\ \A x \in DOMAIN nifi.groups \ {start} : nifi'.groups[x] = nifi.groups[x]
               /\ nifi'.groups[start] = h
               /\ nifi'.groups \in [DOMAIN nifi'.groups -> Group]
    <3>1. GroupBecomes(start, h)
      BY <1>2, <2>1, FieldIs DEF Install
    <3>2. QED
      BY <1>2, <1>4, <3>1, GroupTypes
  <2>2. CASE nifi' = started
    BY <2>1, <2>2
  <2>3. CASE nifi' = nifi /\ nifi' # started
    BY <1>2, <2>3 DEF Typed, TypeOK, Install
  <2>4. QED
    BY <1>1, <2>2, <2>3
<1>6. <<warned', trouble'>> \in BOOLEAN \X BOOLEAN
  BY <1>1, <1>2 DEF Typed, TypeOK
<1>7. Typed'
  BY <1>1, <1>2, <1>5, <1>6 DEF Typed, TypeOK, Steps
<1>8. OwnGroup'
  BY <1>1 DEF OwnGroup, Clearing, Constructing, Serving, Chaining
<1>9. OwnChains'
  BY <1>5 DEF IInv, OwnChains, Install
<1>10. OwnService' /\ Targets'
  BY <1>1, <1>2 DEF OwnService, Targets, Clearing, Serving, Chaining
<1>11. RunningIsComplete'
  <2>1. Len(Chains) = 4
    BY DEF Chains
  <2>2. \A g \in DOMAIN nifi.groups \ {start} :
          nifi'.groups[g].state # "STOPPED" => Len(nifi'.groups[g].chains) = 4
    BY <1>5, <2>1 DEF IInv, RunningIsComplete
  <2>3. QED
    BY <1>3, <1>5, <2>1, <2>2 DEF RunningIsComplete
<1>12. WritersServed'
  <2>1. \A i \in DOMAIN Install.chains :
          Install.chains[i] # None =>
            /\ Install.chains[i] \in DOMAIN nifi.services
            /\ nifi.services[Install.chains[i]] = "ENABLED"
    BY <1>2, <1>3
  <2>2. QED
    BY <1>5, <2>1 DEF IInv, WritersServed
<1>13. Untroubled'
  <2>1. \/ trouble' = TRUE
        \/ trouble' = trouble /\ warned' = warned
    BY <1>1, Zenon
  <2>2. QED
    BY <1>1, <2>1 DEF IInv, Untroubled
<1>14. CleanSoFar'
  <2>1. CASE warned' = TRUE
    BY <2>1 DEF CleanSoFar
  <2>2. CASE nifi' = started /\ warned' = warned
    <3> SUFFICES ASSUME ~warned PROVE Installed'
      BY <1>1, <2>2 DEF CleanSoFar, Constructing, Serving, Chaining
    <3>1. DOMAIN nifi.groups = {start} /\ dbcp = start
      BY <1>2 DEF IInv, CleanSoFar
    <3>2. Install.chains = <<start, start, start, None>>
      BY <1>3, <3>1
    <3>3. Install' = h
      BY <1>1, <1>5, <2>2 DEF Install
    <3>4. QED
      BY <1>1, <1>2, <1>5, <3>1, <3>2, <3>3 DEF Installed
  <2>3. QED
    BY <1>1, <2>1, <2>2
<1>15. ServicesCounted'
  <2>1. trouble' \in {trouble, TRUE} /\ pc' \notin Clearing \cup Serving
    BY <1>1 DEF Clearing, Serving
  <2>2. QED
    BY <1>1, <1>2, <1>5, <2>1, CountStays DEF IInv, Serving
<1>16. QED
  BY <1>7, <1>8, <1>9, <1>10, <1>11, <1>12, <1>13, <1>14, <1>15 DEF IInv

\* Nothing of a start outlives the container but the canvas.
LEMMA RestartInvariant ==
  ASSUME IInv, Restart
  PROVE  IInv'
<1>1. /\ nifi' = Restarted /\ start' = start + 1 /\ pc' = "waiting"
      /\ todo' = {} /\ target' = None /\ dbcp' = None
      /\ warned' = FALSE /\ trouble' = FALSE
      /\ failures' = IF trouble \/ pc # "ended" THEN failures + 1 ELSE failures
      /\ start < MaxStarts
  BY DEF Restart
<1>2. Typed /\ start \in Nat /\ failures \in Nat /\ Services \in Nat /\ MaxStarts \in Nat
  BY Numbers, InstallAssumption DEF IInv
<1>3. start \in 1..MaxStarts /\ failures \in 0..(start - 1)
  BY <1>2 DEF Typed, TypeOK, Starts
<1>4. start' \in Starts /\ failures' \in 0..(start' - 1) /\ target' \in 0..start'
  BY <1>1, <1>2, <1>3 DEF Starts, None
<1>5. 1..start \subseteq 1..start' /\ start' \notin 1..start
  BY <1>1, <1>2
<1>6. /\ IsCanvas(nifi') /\ nifi'.services = nifi.services
      /\ DOMAIN nifi'.groups = DOMAIN nifi.groups
      /\ nifi'.groups \in [DOMAIN nifi'.groups -> Group]
      /\ \A g \in DOMAIN nifi.groups :
           /\ nifi'.groups[g].chains = nifi.groups[g].chains
           /\ nifi'.groups[g].state # "STOPPED" => nifi.groups[g].state # "STOPPED"
  <2> DEFINE h(g) == Resumed(nifi.groups[g])
  <2>1. ASSUME NEW g \in DOMAIN nifi.groups
        PROVE  /\ h(g) \in Group /\ h(g).chains = nifi.groups[g].chains
               /\ h(g).state # "STOPPED" => nifi.groups[g].state # "STOPPED"
    BY <1>2 DEF Typed, TypeOK, Group, Resumed
  <2>2. /\ nifi' = [groups |-> nifi'.groups, services |-> nifi'.services]
        /\ nifi'.services = nifi.services
        /\ nifi'.groups = [g \in DOMAIN nifi.groups |-> h(g)]
    BY <1>1 DEF Restarted
  <2> HIDE DEF h
  <2>3. QED
    BY <2>1, <2>2 DEF IsCanvas
<1>7. Typed'
  BY <1>1, <1>2, <1>4, <1>5, <1>6 DEF Typed, TypeOK, Steps
<1>8. OwnGroup'
  BY <1>1, <1>2, <1>5, <1>6 DEF OwnGroup, Clearing, Constructing, Serving, Chaining, Typed, TypeOK
<1>8a. OwnChains' /\ RunningIsComplete' /\ WritersServed'
  BY <1>1, <1>6 DEF IInv, OwnChains, RunningIsComplete, WritersServed
<1>9. OwnService' /\ Targets'
  BY <1>1 DEF OwnService, Targets, Clearing, Serving, Chaining
<1>10. Untroubled' /\ CleanSoFar'
  BY <1>1 DEF Untroubled, CleanSoFar, Clearing, Constructing, Serving, Chaining
<1>11. ServicesCounted'
  <2>1. Services <= failures + 1 + (IF trouble THEN 1 ELSE 0)
    BY DEF IInv, ServicesCounted, ServicesGrowByFailureOnly, Services
  <2>2. Services <= failures' + 1 /\ failures' \in Nat
    BY <1>1, <1>2, <2>1
  <2>3. Services' = Services /\ trouble' = FALSE /\ pc' = "waiting"
    BY <1>1, <1>6 DEF Services
  <2>4. QED
    BY <1>2, <2>2, <2>3 DEF ServicesCounted, ServicesGrowByFailureOnly, Services
<1>12. QED
  BY <1>7, <1>8, <1>8a, <1>9, <1>10, <1>11 DEF IInv

LEMMA InitInvariant ==
  ASSUME Init
  PROVE  IInv
<1>1. /\ nifi = [groups |-> <<>>, services |-> <<>>] /\ start = 1 /\ pc = "waiting"
      /\ todo = {} /\ target = None /\ dbcp = None
      /\ warned = FALSE /\ trouble = FALSE /\ failures = 0
  BY DEF Init
<1>2. Typed
  <2>1. /\ IsCanvas(nifi)
        /\ nifi.groups = <<>> /\ nifi.services = <<>>
        /\ DOMAIN nifi.groups = {} /\ DOMAIN nifi.services = {}
    BY <1>1 DEF IsCanvas
  <2>2. /\ nifi.groups \in [DOMAIN nifi.groups -> Group]
        /\ nifi.services \in [DOMAIN nifi.services -> {"DISABLED", "ENABLING", "ENABLED"}]
    BY <2>1
  <2>3. 1 \in Starts /\ 0 \in 0..(1 - 1) /\ 0 \in 0..1
    BY InstallAssumption DEF Starts
  <2>4. QED
    BY <1>1, <2>1, <2>2, <2>3 DEF Typed, TypeOK, Steps, None
<1>3. OwnGroup /\ OwnChains /\ RunningIsComplete /\ WritersServed
  BY <1>1 DEF OwnGroup, OwnChains, RunningIsComplete, WritersServed, Constructing,
     Serving, Chaining
<1>4. OwnService /\ Targets
  BY <1>1 DEF OwnService, Targets, Chaining
<1>5. Untroubled /\ CleanSoFar
  BY <1>1 DEF Untroubled, CleanSoFar, Constructing, Serving, Chaining
<1>6. ServicesCounted
  <2>1. Services = 0
    BY <1>1, FS_EmptySet DEF Services
  <2>2. QED
    BY <1>1, <2>1 DEF ServicesCounted, ServicesGrowByFailureOnly, Services
<1>7. QED
  BY <1>2, <1>3, <1>4, <1>5, <1>6 DEF IInv

LEMMA StutterInvariant ==
  ASSUME IInv, UNCHANGED vars
  PROVE  IInv'
<1>1. /\ nifi' = nifi
      /\ UNCHANGED <<start, pc, todo, target, dbcp, warned, trouble, failures>>
  BY DEF vars
<1>2. Typed' /\ OwnGroup' /\ OwnChains' /\ OwnService' /\ Targets'
  BY <1>1 DEF IInv, Typed, TypeOK, OwnGroup, Install, OwnChains, OwnService, Targets
<1>3. RunningIsComplete' /\ WritersServed'
  BY <1>1 DEF IInv, RunningIsComplete, WritersServed
<1>4. Untroubled' /\ CleanSoFar'
  BY <1>1 DEF IInv, Untroubled, CanDelete, CleanSoFar, Installed, Install
<1>5. ServicesCounted'
  BY <1>1 DEF IInv, ServicesCounted, ServicesGrowByFailureOnly, Services
<1>6. QED
  BY <1>2, <1>3, <1>4, <1>5 DEF IInv

LEMMA NextInvariant ==
  ASSUME IInv, [Next]_vars
  PROVE  IInv'
  BY WaitInvariant, NextGroupInvariant, StopInvariant, DrainInvariant, DeleteInvariant,
     CreateInvariant, FindInvariant, DisableInvariant, DeleteServiceInvariant,
     CreateServiceInvariant, EnableInvariant, PollInvariant, BuildInvariant,
     StartGroupInvariant, FlowInvariant, WindDownInvariant, DropFilesInvariant, EnabledInvariant, RestartInvariant,
     StutterInvariant DEF Next, Installer

-----------------------------------------------------------------------------
(* Theorems. *)

\* The inductive invariant holds in every reachable state.
THEOREM Invariance == Spec => []IInv
<1>1. QED
  BY InitInvariant, NextInvariant, PTL DEF Spec

\* The canvas and the installer keep their types, whichever calls fail.
THEOREM TypeCorrect == Spec => []TypeOK
<1>1. IInv => TypeOK
  BY DEF IInv, Typed
<1>2. QED
  BY <1>1, Invariance, PTL

\* A clean log means one complete, running, writing group (install_flow.py:462-464).
THEOREM CleanLog == Spec => []CleanLogMeansInstalled
<1>1. IInv => CleanLogMeansInstalled
  BY DEF IInv, CleanSoFar, CleanLogMeansInstalled
<1>2. QED
  BY <1>1, Invariance, PTL

\* Nothing an earlier start left is by itself a reason for a later one to warn, as
\* long as NiFi stops groups and drops flow files as fast as it is asked to
\* (install_flow.py:474-496).
THEOREM LeftoversHarmless == Spec => []LeftoversNeverInTheWay
<1>1. IInv => LeftoversNeverInTheWay
  BY DEF IInv, Untroubled, LeftoversNeverInTheWay
<1>2. QED
  BY <1>1, Invariance, PTL

\* No running chain names a service that is not enabled (install_flow.py:533-545).
THEOREM WritersKeepTheirService == Spec => []RunningChainsCanWrite
<1>1. IInv => RunningChainsCanWrite
  BY DEF IInv, WritersServed, RunningChainsCanWrite, ServicesOf
<1>2. QED
  BY <1>1, Invariance, PTL

\* No half-built group ever runs (install_flow.py:560-592).
THEOREM OnlyCompleteGroupsRun == Spec => []RunningIsComplete
<1>1. IInv => RunningIsComplete
  BY DEF IInv
<1>2. QED
  BY <1>1, Invariance, PTL

\* Services pile up by one for each start that had trouble, at most
\* (install_flow.py:528-531).
THEOREM LeftoverServicesBounded == Spec => []ServicesGrowByFailureOnly
<1>1. IInv => ServicesGrowByFailureOnly
  BY DEF IInv, ServicesCounted
<1>2. QED
  BY <1>1, Invariance, PTL
=============================================================================
