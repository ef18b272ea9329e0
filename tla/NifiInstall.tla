----------------------------- MODULE NifiInstall -----------------------------
(***************************************************************************)
(* nifi/scripts/install_flow.py: at every start of the NiFi container the  *)
(* installer removes the QuakeFlow process groups and the database service *)
(* it finds on the canvas, and builds, enables and starts them anew, in a  *)
(* sequence of REST calls.  A call may fail, or be carried out while its   *)
(* answer is an error or lost; a group that is told to stop, and queues    *)
(* that are told to drop their flow files, do so in their own time; a      *)
(* restart of NiFi ends the installer at any point; the canvas outlives    *)
(* both.  What NiFi makes of a call is external to the repository, and     *)
(* modelled from how the installer copes with it.                          *)
(*                                                                         *)
(* Groups and services are named by the start that creates them.           *)
(***************************************************************************)
EXTENDS Naturals, FiniteSets, Sequences

CONSTANT MaxStarts   \* bound on the starts of the container

ASSUME InstallAssumption == MaxStarts \in Nat \ {0}

VARIABLES
  nifi,     \* the canvas: the groups named QuakeFlow, the services at the root
  start,    \* how often the container has been started
  pc,       \* the installer's next call, or "ended"
  todo,     \* existing_ids still to be drained and deleted
  target,   \* the group being deleted, or the service being removed
  dbcp,     \* dbcp_id
  (* history variables: read by properties only *)
  warned,   \* this start has logged a warning or an exception
  trouble,  \* a call of this start has failed, or came too early for NiFi
  failures  \* earlier starts that had trouble, or were cut short

history == <<warned, trouble, failures>>
vars == <<nifi, start, pc, todo, target, dbcp, warned, trouble, failures>>

Starts == 1..MaxStarts
None == 0            \* Python's None; as a sink, LogAttribute

\* The chains in the order main() builds them.
Chains == <<"AFAD", "EMSC", "USGS", "KOERI">>

\* chains lists, for each chain that is complete, the service its PutSQL uses.
\* A group that is STOPPING is not scheduled any more, but threads of its processors
\* are still at work.  Its queues are filled when one of them holds a flow file, and
\* dropping when NiFi has been asked to drop what they hold, and is yet to do it.
Group == [state : {"RUNNING", "STOPPING", "STOPPED"},
          queue : {"empty", "filled", "dropping"},
          chains : Seq(Starts \cup {None})]

Steps == {"waiting", "nextGroup", "stop", "drain", "delete", "createGroup",
          "findService", "disable", "deleteService", "createService", "enable",
          "poll", "build", "startGroup", "ended"}

Install == nifi.groups[start]   \* the group this start has created

TypeOK ==
  /\ DOMAIN nifi.groups \subseteq 1..start
  /\ nifi.groups \in [DOMAIN nifi.groups -> Group]
  /\ DOMAIN nifi.services \subseteq 1..start
  /\ nifi.services \in [DOMAIN nifi.services -> {"DISABLED", "ENABLING", "ENABLED"}]
  /\ start \in Starts
  /\ pc \in Steps
  /\ todo \subseteq DOMAIN nifi.groups
  /\ target \in 0..start
  /\ dbcp \in {None} \cup DOMAIN nifi.services
  /\ <<warned, trouble>> \in BOOLEAN \X BOOLEAN
  /\ failures \in 0..(start - 1)
  /\ pc \in {"build", "startGroup"} => start \in DOMAIN nifi.groups

Init ==
  /\ nifi = [groups |-> <<>>, services |-> <<>>]
  /\ start = 1
  /\ pc = "waiting"
  /\ todo = {}
  /\ target = None
  /\ dbcp = None
  /\ warned = FALSE
  /\ trouble = FALSE
  /\ failures = 0

-----------------------------------------------------------------------------
(* NiFi. *)
With(f, x, v) == [y \in DOMAIN f \cup {x} |-> IF y = x THEN v ELSE f[y]]
Without(f, x) == [y \in DOMAIN f \ {x} |-> f[y]]

\* The services the group's PutSQL processors name.
ServicesOf(g) == {nifi.groups[g].chains[i] : i \in DOMAIN nifi.groups[g].chains} \ {None}

\* Processors of the group are at work.
AtWork(g) == nifi.groups[g].state # "STOPPED"

\* NiFi refuses to delete a group at work or with flow files queued ...
CanDelete(g) == ~AtWork(g) /\ nifi.groups[g].queue = "empty"

\* ... and to disable a service a processor at work uses.
CanDisable(s) == \A g \in DOMAIN nifi.groups : AtWork(g) => s \notin ServicesOf(g)

\* NiFi has been asked to stop the group, or to empty its queues, and has not yet.
Asked(g) == nifi.groups[g].state = "STOPPING" \/ nifi.groups[g].queue = "dropping"

\* A call that leaves the canvas as new: answered as it should be, or failed,
\* which may mean that it was carried out all the same.
Answered(new) == nifi' = new /\ UNCHANGED <<trouble, failures>>
Failed(new) == nifi' \in {nifi, new} /\ trouble' = TRUE /\ UNCHANGED failures

\* The same for a call about a group that NiFi may not have done with.
AnsweredOf(g, new) ==
  nifi' = new /\ trouble' = (trouble \/ Asked(g)) /\ UNCHANGED failures

Stopping(g) == [nifi EXCEPT !.groups[g].state = IF @ = "STOPPED" THEN "STOPPED" ELSE "STOPPING"]
Stopped(g) == [nifi EXCEPT !.groups[g].state = "STOPPED"]
Dropping(g) == [nifi EXCEPT !.groups[g].queue = IF @ = "empty" THEN "empty" ELSE "dropping"]
Dropped(g) == [nifi EXCEPT !.groups[g].queue = "empty"]
Deleted(g) == [nifi EXCEPT !.groups = Without(@, g)]
ServiceIn(s, state) == [nifi EXCEPT !.services = With(@, s, state)]
ServiceDeleted(s) == [nifi EXCEPT !.services = Without(@, s)]

\* Processors at work fill and empty their queues.
Flow ==
  /\ \E g \in DOMAIN nifi.groups :
       /\ AtWork(g)
       /\ nifi' = [nifi EXCEPT !.groups[g].queue = IF @ = "empty" THEN "filled" ELSE "empty"]
  /\ UNCHANGED <<start, pc, todo, target, dbcp, history>>

\* The last thread of a group that was told to stop has come to its end (a fetch
\* may read for half a minute, an INSERT wait for a lock).
WindDown ==
  /\ \E g \in DOMAIN nifi.groups : nifi.groups[g].state = "STOPPING" /\ nifi' = Stopped(g)
  /\ UNCHANGED <<start, pc, todo, target, dbcp, history>>

\* The drop-requests of a group are carried out.
DropFiles ==
  /\ \E g \in DOMAIN nifi.groups : nifi.groups[g].queue = "dropping" /\ nifi' = Dropped(g)
  /\ UNCHANGED <<start, pc, todo, target, dbcp, history>>

\* A service that is being enabled has got its connection pool.
Enabled ==
  /\ \E s \in DOMAIN nifi.services :
       /\ nifi.services[s] = "ENABLING"
       /\ nifi' = ServiceIn(s, "ENABLED")
  /\ UNCHANGED <<start, pc, todo, target, dbcp, history>>

-----------------------------------------------------------------------------
(* The installer. *)
GoTo(p) == pc' = p

\* An exception nobody catches, or return 1: the log has it, the script is over.
Raise ==
  /\ GoTo("ended")
  /\ warned' = TRUE
  /\ UNCHANGED <<start, todo, target, dbcp>>

\* Mutant: find_pg_by_name, which stops at the first match.
FirstPg == {g \in DOMAIN nifi.groups : g = CHOOSE h \in DOMAIN nifi.groups : TRUE}

\* _find_all_pgs
FindAllPgs == DOMAIN nifi.groups

\* wait_for_api, root_pg_id and the first _find_all_pgs.
WaitForApi ==
  /\ pc = "waiting"
  /\ \/ /\ todo' = FindAllPgs
        /\ GoTo("nextGroup")
        /\ UNCHANGED <<nifi, start, target, dbcp, history>>
     \/ Raise /\ Failed(nifi)

NextGroup ==
  /\ pc = "nextGroup"
  /\ \/ \E g \in todo : target' = g /\ todo' = todo \ {g} /\ GoTo("stop")
     \/ todo = {} /\ target' = None /\ todo' = todo /\ GoTo("createGroup")
  /\ UNCHANGED <<nifi, start, dbcp, history>>

\* _drain_and_delete, call by call.  Whatever happens to the first two calls is
\* passed over in silence, and nobody looks whether NiFi has done what they ask:
\* the installer sleeps two seconds before the DELETE.
StopGroup ==
  /\ pc = "stop"
  /\ Answered(Stopping(target)) \/ Failed(Stopping(target))
  /\ GoTo("drain")
  /\ UNCHANGED <<start, todo, target, dbcp, warned>>

\* Mutant: without this drain (install_flow.py:478-479).
SkipDrain ==
  /\ pc = "drain"
  /\ Answered(nifi)
  /\ GoTo("delete")
  /\ UNCHANGED <<start, todo, target, dbcp, warned>>

\* The drop-requests, one for each connection.
DrainQueues ==
  /\ pc = "drain"
  /\ AnsweredOf(target, Dropping(target)) \/ Failed(Dropping(target))
  /\ GoTo("delete")
  /\ UNCHANGED <<start, todo, target, dbcp, warned>>

DeleteGroup ==
  /\ pc = "delete"
  /\ \/ CanDelete(target) /\ AnsweredOf(target, Deleted(target)) /\ UNCHANGED warned
     \/ CanDelete(target) /\ Failed(Deleted(target)) /\ warned' = TRUE
     \/ ~CanDelete(target) /\ AnsweredOf(target, nifi) /\ warned' = TRUE
  /\ GoTo("nextGroup")
  /\ UNCHANGED <<start, todo, target, dbcp>>

CreateGroup ==
  /\ pc = "createGroup"
  /\ LET created == [nifi EXCEPT !.groups =
           With(@, start, [state |-> "STOPPED", queue |-> "empty", chains |-> <<>>])]
     IN  \/ /\ Answered(created)
            /\ GoTo("findService")
            /\ UNCHANGED <<start, todo, target, dbcp, warned>>
         \/ Failed(created) /\ Raise

\* find_dbcp_at_root: the first match, None if there is none or the answer is an
\* error; an exception is not caught.
FindService ==
  /\ pc = "findService"
  /\ \/ /\ \E s \in DOMAIN nifi.services : target' = s
        /\ GoTo("disable")
        /\ UNCHANGED <<nifi, start, todo, dbcp, history>>
     \/ /\ DOMAIN nifi.services = {}
        /\ GoTo("createService")
        /\ UNCHANGED <<nifi, start, todo, target, dbcp, history>>
     \/ /\ Failed(nifi)
        /\ GoTo("createService")
        /\ UNCHANGED <<start, todo, target, dbcp, warned>>
     \/ Failed(nifi) /\ Raise

\* Mutant: a service that was found is not removed.
LeaveService ==
  /\ pc = "disable"
  /\ Answered(nifi)
  /\ GoTo("createService")
  /\ UNCHANGED <<start, todo, target, dbcp, warned>>

\* disable_and_delete_service.  The answer to the PUT is not looked at; an
\* exception ends the function, is logged, and its False is not looked at.
DisableService ==
  /\ pc = "disable"
  /\ LET disabled == IF CanDisable(target) THEN ServiceIn(target, "DISABLED") ELSE nifi
     IN  \/ Answered(disabled) /\ GoTo("deleteService") /\ UNCHANGED warned
         \/ Failed(disabled) /\ GoTo("deleteService") /\ UNCHANGED warned
         \/ Failed(disabled) /\ GoTo("createService") /\ warned' \in {warned, TRUE}
  /\ UNCHANGED <<start, todo, target, dbcp>>

\* The DELETE, which NiFi refuses for a service that is not disabled.
DeleteService ==
  /\ pc = "deleteService"
  /\ LET deleted == IF nifi.services[target] = "DISABLED" THEN ServiceDeleted(target) ELSE nifi
     IN  \/ Answered(deleted) /\ UNCHANGED warned
         \/ Failed(deleted) /\ warned' \in {warned, TRUE}
  /\ GoTo("createService")
  /\ UNCHANGED <<start, todo, target, dbcp>>

\* Mutant: the warning is logged and dbcp_id kept.
WarnOnly == GoTo("build") /\ warned' = TRUE /\ UNCHANGED <<start, todo, target, dbcp>>

\* "falling back to LogAttribute sinks"
FallBack ==
  /\ dbcp' = None
  /\ GoTo("build")
  /\ warned' = TRUE
  /\ UNCHANGED <<start, todo, target>>

\* Mutant: the service is taken to exist whatever the answer.
AssumeService ==
  /\ pc = "createService"
  /\ \/ Answered(ServiceIn(start, "DISABLED"))
     \/ Failed(ServiceIn(start, "DISABLED"))
  /\ dbcp' = start
  /\ GoTo("enable")
  /\ UNCHANGED <<start, todo, target, warned>>

CreateService ==
  /\ pc = "createService"
  /\ \/ /\ Answered(ServiceIn(start, "DISABLED"))
        /\ dbcp' = start
        /\ GoTo("enable")
        /\ UNCHANGED <<start, todo, target, warned>>
     \/ Failed(ServiceIn(start, "DISABLED")) /\ FallBack

\* enable_controller_service: the call, and the poll for at most a minute.
EnableService ==
  /\ pc = "enable"
  /\ \/ /\ Answered(ServiceIn(dbcp, "ENABLING"))
        /\ GoTo("poll")
        /\ UNCHANGED <<start, todo, target, dbcp, warned>>
     \/ Failed(ServiceIn(dbcp, "ENABLING")) /\ FallBack

\* Mutant: no deadline.
PollForEver ==
  /\ pc = "poll"
  /\ nifi.services[dbcp] = "ENABLED"
  /\ Answered(nifi)
  /\ GoTo("build")
  /\ UNCHANGED <<start, todo, target, dbcp, warned>>

\* Until the service is ENABLED; an error, INVALID or the deadline is a failed call.
Poll ==
  /\ pc = "poll"
  /\ \/ /\ nifi.services[dbcp] = "ENABLED"
        /\ Answered(nifi)
        /\ GoTo("build")
        /\ UNCHANGED <<start, todo, target, dbcp, warned>>
     \/ Failed(nifi) /\ FallBack

\* Mutant: a chain that cannot be built is logged and the rest left out.
BuildWhatGoes ==
  /\ pc = "build"
  /\ Answered(nifi)
  /\ GoTo("startGroup")
  /\ warned' = TRUE
  /\ UNCHANGED <<start, todo, target, dbcp>>

\* build_source_chain for the next source: the posts of its processors and
\* connections, the first of which to fail ends the script.
BuildChain ==
  /\ pc = "build"
  /\ LET n == Len(Install.chains) + 1
         sink == IF Chains[n] = "KOERI" THEN None ELSE dbcp
     IN  \/ /\ Answered([nifi EXCEPT !.groups[start].chains = Append(@, sink)])
            /\ GoTo(IF n = Len(Chains) THEN "startGroup" ELSE "build")
            /\ UNCHANGED <<start, todo, target, dbcp, warned>>
         \/ Failed(nifi) /\ Raise

StartGroup ==
  /\ pc = "startGroup"
  /\ LET started == [nifi EXCEPT !.groups[start].state = "RUNNING"]
     IN  \/ Answered(started) /\ UNCHANGED warned
         \/ Failed(started) /\ warned' = TRUE
  /\ GoTo("ended")
  /\ UNCHANGED <<start, todo, target, dbcp>>

\* The container stops, whatever the installer is doing, and starts again.  NiFi
\* brings groups and services back to the state they had; no thread and no
\* drop-request lives on.
Resumed(h) ==
  [state  |-> IF h.state = "STOPPING" THEN "STOPPED" ELSE h.state,
   queue  |-> IF h.queue = "dropping" THEN "filled" ELSE h.queue,
   chains |-> h.chains]

Restarted ==
  [groups   |-> [g \in DOMAIN nifi.groups |-> Resumed(nifi.groups[g])],
   services |-> nifi.services]

Restart ==
  /\ start < MaxStarts
  /\ start' = start + 1
  /\ pc' = "waiting"
  /\ todo' = {}
  /\ target' = None
  /\ dbcp' = None
  /\ warned' = FALSE
  /\ trouble' = FALSE
  /\ failures' = IF trouble \/ pc # "ended" THEN failures + 1 ELSE failures
  /\ nifi' = Restarted

Installer ==
  \/ WaitForApi \/ NextGroup \/ StopGroup \/ DrainQueues \/ DeleteGroup \/ CreateGroup
  \/ FindService \/ DisableService \/ DeleteService
  \/ CreateService \/ EnableService \/ Poll \/ BuildChain \/ StartGroup

Next == Installer \/ Flow \/ WindDown \/ DropFiles \/ Enabled \/ Restart

\* Every call has a timeout and every poll a deadline, so the installer goes on.
\* Nothing is assumed of NiFi.
Spec == Init /\ [][Next]_vars /\ WF_vars(Installer)

-----------------------------------------------------------------------------
(* Properties. *)

\* What main() is there for: one group, running, three chains that write through
\* a service that is enabled, and KOERI's.
Installed ==
  /\ DOMAIN nifi.groups = {start}
  /\ Install.state = "RUNNING"
  /\ start \in DOMAIN nifi.services /\ nifi.services[start] = "ENABLED"
  /\ Install.chains = <<start, start, start, None>>

\* install_flow.py:462-464: a start that ends without a warning in its log has
\* left one group, complete and writing, whatever stack of groups, half-built
\* chains and services earlier starts had left on the canvas.
CleanLogMeansInstalled == pc = "ended" /\ ~warned => Installed

\* install_flow.py:474-479: no leftover of earlier starts is by itself a reason
\* to fail.  If every call is answered, and the group has wound down by the time
\* its queues are dropped and they are empty by the time of the DELETE, a start
\* has nothing to warn of, though the groups it found were running.  The two
\* seconds at line 496 are all that is done for the condition.
LeftoversNeverInTheWay == pc = "ended" /\ ~trouble => ~warned

\* install_flow.py:533-545: a group is at work only with chains whose service is
\* enabled, also groups of earlier starts while a later one removes services.
RunningChainsCanWrite ==
  \A g \in DOMAIN nifi.groups : AtWork(g) =>
    \A s \in ServicesOf(g) : s \in DOMAIN nifi.services /\ nifi.services[s] = "ENABLED"

\* install_flow.py:560-592: a group that was left half-built is never the one that
\* is at work, not even after the next start found it.
RunningIsComplete ==
  \A g \in DOMAIN nifi.groups : AtWork(g) => Len(nifi.groups[g].chains) = Len(Chains)

\* install_flow.py:528-531 removes one service however many it finds: each start
\* that had trouble can leave one more, be it that a call failed or that a group
\* still winding down kept its service from being disabled; nothing else can.
ServicesGrowByFailureOnly ==
  Cardinality(DOMAIN nifi.services) <= failures + 1 + (IF trouble THEN 1 ELSE 0)

\* The installer comes to an end whatever NiFi answers, or never answers.
InstallerEnds == pc # "ended" ~> pc = "ended"
=============================================================================
