------------------------------ MODULE Zeroconf ------------------------------
(***************************************************************************)
(* CZeroconf and its mDNS back end (airplay/network/Zeroconf.cpp and       *)
(* mdns/ZeroconfMDNS.cpp), the client of the job manager.                  *)
(*                                                                         *)
(* The map of services is changed at once, under mp_crit_sec, and so are   *)
(* registrations removed; publishing is left to CPublish jobs, which carry *)
(* a copy of the services to publish and never look at the map again.  The *)
(* manager is what JobService says of it, which JobManager implements.     *)
(*                                                                         *)
(* PublishService, RemoveService, Start and Stop hold mp_crit_sec and are  *)
(* one step.  doPublishService takes m_data_guard twice, to register and   *)
(* to remember the registration: two steps.  m_service is always NULL.     *)
(***************************************************************************)
EXTENDS Integers, FiniteSets, Functions

CONSTANTS
  Idents,       \* service identifiers, ordered like the keys of std::map
  Infos,        \* CZeroconf::PublishInfo values
  NONE,
  Jobs,         \* CPublish objects, reused after delete
  Refs,         \* DNSServiceRef handles, reused after deallocation
  Refusable,    \* those DNSServiceRegister may return an error for
  max_workers

LOW == 0

ASSUME IdentAssumption == Idents \subseteq Nat
ASSUME NoneAssumption  == NONE \notin Infos \cup Refs \cup [id: Idents, info: Infos]
ASSUME RefuseAssumption == Refusable \subseteq Idents

VARIABLES
  m_service_map, m_started,
  accepting, paused, status, prio,  \* the job manager
  m_servmap,   \* what each CPublish job has not published yet
  registered,  \* the registration a job made and has not remembered yet
  m_services,  \* CZeroconfMDNS::m_services
  live,        \* the responder: the service behind each handle, or NONE
  answer       \* what the last RemoveService found and what it returned

clientVars  == <<m_service_map, m_started>>
managerVars == <<accepting, paused, status, prio>>
mdnsVars    == <<m_services, live>>
vars == <<clientVars, managerVars, m_servmap, registered, mdnsVars, answer>>

Manager == INSTANCE JobService WITH Jobs <- Jobs, max_workers <- max_workers

Nothing == [id \in Idents |-> NONE]

Init == /\ m_service_map = Nothing
        /\ m_started = FALSE
        /\ Manager!Init
        /\ m_servmap = [j \in Jobs |-> Nothing]
        /\ registered = [j \in Jobs |-> NONE]
        /\ m_services = Nothing
        /\ live = [r \in Refs |-> NONE]
        /\ answer = [existed |-> FALSE, returned |-> FALSE]

-----------------------------------------------------------------------------
(* Calls of the clients.                                                   *)

(* AddJob(new CPublish(services), NULL); a stopped manager drops it.       *)
AddPublishJob(services) ==
  \/ /\ accepting
     /\ \E j \in Jobs : /\ Manager!Submit(j, LOW)
                        /\ m_servmap' = [m_servmap EXCEPT ![j] = services]
  \/ /\ ~accepting
     /\ UNCHANGED <<managerVars, m_servmap>>

PublishService(id, info) ==
  /\ m_service_map[id] = NONE
  /\ m_service_map' = [m_service_map EXCEPT ![id] = info]
  /\ IF m_started THEN AddPublishJob([Nothing EXCEPT ![id] = info])
     ELSE UNCHANGED <<managerVars, m_servmap>>
  /\ UNCHANGED <<m_started, registered, mdnsVars, answer>>

doRemoveService(id) ==
  IF m_services[id] = NONE THEN UNCHANGED mdnsVars
  ELSE /\ live' = [live EXCEPT ![m_services[id]] = NONE]
       /\ m_services' = [m_services EXCEPT ![id] = NONE]

RemoveService_NoUnpublish(id) ==
  /\ m_service_map[id] # NONE
  /\ m_service_map' = [m_service_map EXCEPT ![id] = NONE]
  /\ answer' = [existed |-> TRUE, returned |-> TRUE]
  /\ UNCHANGED <<m_started, managerVars, m_servmap, registered, mdnsVars>>

RemoveService(id) ==
  LET existed == m_service_map[id] # NONE
  IN  /\ m_service_map' = [m_service_map EXCEPT ![id] = NONE]
      /\ IF existed /\ m_started THEN doRemoveService(id) ELSE UNCHANGED mdnsVars
      /\ answer' = [existed |-> existed,
                    returned |-> existed /\ (m_started => m_services[id] # NONE)]
      /\ UNCHANGED <<m_started, managerVars, m_servmap, registered>>

Start_NoJob == /\ ~m_started /\ m_started' = TRUE
               /\ UNCHANGED <<m_service_map, managerVars, m_servmap, registered,
                              mdnsVars, answer>>

Start == /\ ~m_started
         /\ m_started' = TRUE
         /\ AddPublishJob(m_service_map)
         /\ UNCHANGED <<m_service_map, registered, mdnsVars, answer>>

doStop_KeepServices ==
  /\ live' = [r \in Refs |-> IF r \in Range(m_services) THEN NONE ELSE live[r]]
  /\ UNCHANGED m_services

doStop ==
  /\ live' = [r \in Refs |-> IF r \in Range(m_services) THEN NONE ELSE live[r]]
  /\ m_services' = Nothing

Stop == /\ m_started
        /\ m_started' = FALSE
        /\ doStop
        /\ UNCHANGED <<m_service_map, managerVars, m_servmap, registered, answer>>

-----------------------------------------------------------------------------
(* CPublish::DoWork, on a thread of the manager.                           *)

Pending(j) == {id \in Idents : m_servmap[j][id] # NONE}

doPublishService_AnyService(j) ==
  /\ status[j] = "running" /\ registered[j] = NONE
  /\ \E id \in Idents, r \in Refs :
       /\ live[r] = NONE
       /\ live' = [live EXCEPT ![r] = [id |-> id, info |-> m_servmap[j][id]]]
       /\ registered' = [registered EXCEPT ![j] = r]
       /\ m_servmap' = [m_servmap EXCEPT ![j][id] = NONE]
  /\ UNCHANGED <<clientVars, managerVars, m_services, answer>>

(* doPublishService for the next service, to the end of DNSServiceRegister *)
doPublishService(j) ==
  /\ status[j] = "running" /\ registered[j] = NONE
  /\ \E id \in Pending(j) :
       /\ \A k \in Pending(j) : id <= k
       /\ \/ \E r \in Refs :
               /\ live[r] = NONE
               /\ live' = [live EXCEPT ![r] = [id |-> id, info |-> m_servmap[j][id]]]
               /\ registered' = [registered EXCEPT ![j] = r]
          \/ id \in Refusable /\ UNCHANGED <<live, registered>>
       /\ m_servmap' = [m_servmap EXCEPT ![j][id] = NONE]
  /\ UNCHANGED <<clientVars, managerVars, m_services, answer>>

RememberService_Forget(j) ==
  /\ registered[j] # NONE
  /\ registered' = [registered EXCEPT ![j] = NONE]
  /\ UNCHANGED <<clientVars, managerVars, m_servmap, mdnsVars, answer>>

(* m_services.insert, which keeps a registration that is there.            *)
RememberService(j) ==
  LET r == registered[j]
  IN  /\ r # NONE
      /\ m_services' = IF m_services[live[r].id] = NONE
                       THEN [m_services EXCEPT ![live[r].id] = r] ELSE m_services
      /\ registered' = [registered EXCEPT ![j] = NONE]
      /\ UNCHANGED <<clientVars, managerVars, m_servmap, live, answer>>

FinishJob(j) ==
  /\ Pending(j) = {} /\ registered[j] = NONE
  /\ Manager!Finish(j)
  /\ UNCHANGED <<clientVars, m_servmap, registered, mdnsVars, answer>>

(* What the manager does by itself; nobody withdraws or pauses these jobs. *)
ManagerStarts(j) ==
  /\ Manager!Start(j)
  /\ UNCHANGED <<clientVars, m_servmap, registered, mdnsVars, answer>>

ManagerDestroys(j) ==
  /\ Manager!Destroy(j)
  /\ UNCHANGED <<clientVars, m_servmap, registered, mdnsVars, answer>>

ManagerCloses ==
  /\ Manager!Close
  /\ m_servmap' = [j \in Jobs |-> IF status[j] = "queued" THEN Nothing ELSE m_servmap[j]]
  /\ UNCHANGED <<clientVars, registered, mdnsVars, answer>>

-----------------------------------------------------------------------------

JobStep(j) == doPublishService(j) \/ RememberService(j) \/ FinishJob(j)
              \/ ManagerDestroys(j)

Background == (\E j \in Jobs : JobStep(j) \/ ManagerStarts(j)) \/ ManagerCloses

(* No CPublish job is queued or runs. *)
Quiet == \A j \in Jobs : status[j] \notin {"queued", "running"}

Adding == Start \/ \E id \in Idents, info \in Infos : PublishService(id, info)

Withdrawing == Stop \/ \E id \in Idents : RemoveService(id)

Spec == Init /\ [][Background \/ Adding \/ Withdrawing]_vars

(* Clients that withdraw services only when no publication is under way.   *)
PatientSpec == Init /\ [][Background \/ Adding \/ (Quiet /\ Withdrawing)]_vars

(* The manager's queue is first in first out and all its jobs are of one   *)
(* priority: a queued job that can run again and again gets its turn.      *)
FairSpec == /\ Spec
            /\ \A j \in Jobs : WF_vars(JobStep(j)) /\ SF_vars(ManagerStarts(j))

-----------------------------------------------------------------------------
(* Properties.                                                             *)

(* Type invariant of CZeroconf, its jobs and CZeroconfMDNS. *)
TypeOK ==
  /\ m_service_map \in [Idents -> Infos \cup {NONE}]
  /\ m_started \in BOOLEAN
  /\ m_servmap \in [Jobs -> [Idents -> Infos \cup {NONE}]]
  /\ registered \in [Jobs -> Refs \cup {NONE}]
  /\ m_services \in [Idents -> Refs \cup {NONE}]
  /\ live \in [Refs -> [id: Idents, info: Infos] \cup {NONE}]
  /\ answer \in [existed: BOOLEAN, returned: BOOLEAN]

(* A handle is deallocated once: whatever removals, stops and publications *)
(* interleave, the handles that m_services and the jobs hold are live, and *)
(* nobody else holds them.                                                 *)
HandlesLive ==
  /\ \A id \in Idents : m_services[id] # NONE =>
       live[m_services[id]] # NONE /\ live[m_services[id]].id = id
  /\ \A j \in Jobs : registered[j] # NONE =>
       /\ live[registered[j]] # NONE
       /\ registered[j] \notin Range(m_services)
       /\ \A k \in Jobs : registered[k] = registered[j] => k = j

Published == {live[r] : r \in {s \in Refs : live[s] # NONE}}

Wanted == IF m_started
          THEN {[id |-> id, info |-> m_service_map[id]] :
                  id \in {i \in Idents : m_service_map[i] # NONE}}
          ELSE {}

(* Zeroconf.h:55-69: when no publication is under way, the services that   *)
(* are published are those that were added and not removed, as they were   *)
(* added, and after Stop none; all of them, save those the responder may   *)
(* refuse, while the manager runs.                                         *)
PublishedMatches ==
  Quiet => /\ Published \subseteq Wanted
           /\ accepting => \A s \in Wanted : s \in Published \/ s.id \in Refusable

(* Zeroconf.h:96, doStop "removes all services": every registration is one *)
(* that doStop will find, or that a job is about to enter.                 *)
NoLeakedRegistration ==
  \A r \in Refs : live[r] # NONE => r \in Range(m_services) \cup Range(registered)

(* Zeroconf.h:56, RemoveService "returns false if fcr_identifier does not  *)
(* exist", and only then, while the manager runs and nothing is refused.   *)
RemoveAnswersExistence ==
  accepting /\ Refusable = {} => (answer.returned <=> answer.existed)

(* The bound on handles is reached, because leaked ones use them up. *)
NoHandleFree == \A r \in Refs : live[r] # NONE

(* Zeroconf.h:63: services added before or after Start get published, once *)
(* started and not removed, stopped or shut down meanwhile.                *)
ServicePublished ==
  \A id \in Idents \ Refusable :
    m_started /\ m_service_map[id] # NONE ~>
      \/ \E s \in Published : s.id = id
      \/ m_service_map[id] = NONE \/ ~m_started \/ ~accepting \/ NoHandleFree
=============================================================================
