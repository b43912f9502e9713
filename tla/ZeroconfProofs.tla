--------------------------- MODULE ZeroconfProofs ---------------------------
(***************************************************************************)
(* Proofs about Zeroconf for any number of services, publish jobs and      *)
(* handles, whatever the responder refuses.                                *)
(***************************************************************************)
EXTENDS Zeroconf, TLAPS

USE IdentAssumption, NoneAssumption, RefuseAssumption

Step == Background \/ Adding \/ Withdrawing

-----------------------------------------------------------------------------
(* Type correctness.                                                       *)

LEMMA NothingType == Nothing \in [Idents -> Infos \cup {NONE}]
  BY DEF Nothing

LEMMA InitType == Init => TypeOK
<1> SUFFICES ASSUME Init PROVE TypeOK
  OBVIOUS
<1>1. answer \in [existed: BOOLEAN, returned: BOOLEAN]
  BY DEF Init
<1>2. m_services \in [Idents -> Refs \cup {NONE}]
  BY DEF Init, Nothing
<1>3. /\ m_servmap \in [Jobs -> [Idents -> Infos \cup {NONE}]]
      /\ m_service_map \in [Idents -> Infos \cup {NONE}]
  BY NothingType DEF Init
<1> QED
  BY <1>1, <1>2, <1>3 DEF Init, TypeOK

LEMMA AddPublishJobType ==
  ASSUME TypeOK, NEW services \in [Idents -> Infos \cup {NONE}],
         AddPublishJob(services)
  PROVE  m_servmap' \in [Jobs -> [Idents -> Infos \cup {NONE}]]
  BY DEF TypeOK, AddPublishJob

LEMMA StepType == TypeOK /\ [Step]_vars => TypeOK'
<1> SUFFICES ASSUME TypeOK, [Step]_vars PROVE TypeOK'
  OBVIOUS
<1>1. ASSUME NEW j \in Jobs, doPublishService(j) PROVE TypeOK'
  <2>1. PICK id \in Pending(j) :
          /\ \/ \E r \in Refs :
                  /\ live' = [live EXCEPT ![r] = [id |-> id, info |-> m_servmap[j][id]]]
                  /\ registered' = [registered EXCEPT ![j] = r]
             \/ UNCHANGED <<live, registered>>
          /\ m_servmap' = [m_servmap EXCEPT ![j][id] = NONE]
    BY <1>1 DEF doPublishService
  <2>2. id \in Idents /\ m_servmap[j][id] \in Infos
    BY DEF Pending, TypeOK
  <2>3. m_servmap' \in [Jobs -> [Idents -> Infos \cup {NONE}]]
    BY <2>1, <2>2 DEF TypeOK
  <2>4. /\ live' \in [Refs -> [id: Idents, info: Infos] \cup {NONE}]
        /\ registered' \in [Jobs -> Refs \cup {NONE}]
    <3>1. ASSUME NEW r \in Refs,
                 live' = [live EXCEPT ![r] = [id |-> id, info |-> m_servmap[j][id]]],
                 registered' = [registered EXCEPT ![j] = r]
          PROVE  /\ live' \in [Refs -> [id: Idents, info: Infos] \cup {NONE}]
                 /\ registered' \in [Jobs -> Refs \cup {NONE}]
      <4> DEFINE rec == [id |-> id, info |-> m_servmap[j][id]]
      <4>1. rec \in [id: Idents, info: Infos]
        BY <2>2
      <4>2. live' = [live EXCEPT ![r] = rec]
        BY <3>1
      <4> HIDE DEF rec
      <4> QED
        BY <4>1, <4>2, <3>1 DEF TypeOK
    <3> QED
      BY <2>1, <3>1 DEF TypeOK
  <2> QED
    BY <1>1, <2>3, <2>4 DEF doPublishService, TypeOK, clientVars
<1>2. ASSUME NEW j \in Jobs, RememberService(j) PROVE TypeOK'
  BY <1>2 DEF RememberService, TypeOK, clientVars
<1>3. ASSUME NEW j \in Jobs, FinishJob(j) \/ ManagerDestroys(j) \/ ManagerStarts(j)
      PROVE  TypeOK'
  BY <1>3 DEF FinishJob, ManagerDestroys, ManagerStarts, TypeOK, clientVars, mdnsVars
<1>4. CASE ManagerCloses
  <2>1. m_servmap' \in [Jobs -> [Idents -> Infos \cup {NONE}]]
    BY <1>4, NothingType DEF ManagerCloses, TypeOK
  <2> QED
    BY <1>4, <2>1 DEF ManagerCloses, TypeOK, clientVars, mdnsVars
<1>5. CASE Start
  <2>1. m_servmap' \in [Jobs -> [Idents -> Infos \cup {NONE}]]
    BY <1>5, AddPublishJobType DEF Start, TypeOK
  <2> QED
    BY <1>5, <2>1 DEF Start, TypeOK, mdnsVars
<1>6. ASSUME NEW id \in Idents, NEW info \in Infos, PublishService(id, info)
      PROVE  TypeOK'
  <2>1. [Nothing EXCEPT ![id] = info] \in [Idents -> Infos \cup {NONE}]
    BY NothingType
  <2>2. m_servmap' \in [Jobs -> [Idents -> Infos \cup {NONE}]]
    BY <1>6, <2>1, AddPublishJobType DEF PublishService, TypeOK
  <2> QED
    BY <1>6, <2>2 DEF PublishService, TypeOK, mdnsVars
<1>7. CASE Stop
  <2>1. m_services' \in [Idents -> Refs \cup {NONE}]
    BY <1>7 DEF Stop, doStop, Nothing
  <2>2. live' \in [Refs -> [id: Idents, info: Infos] \cup {NONE}]
    BY <1>7 DEF Stop, doStop, TypeOK
  <2> QED
    BY <1>7, <2>1, <2>2 DEF Stop, TypeOK, managerVars
<1>8. ASSUME NEW id \in Idents, RemoveService(id) PROVE TypeOK'
  <2>1. /\ m_services' \in [Idents -> Refs \cup {NONE}]
        /\ live' \in [Refs -> [id: Idents, info: Infos] \cup {NONE}]
    BY <1>8 DEF RemoveService, doRemoveService, mdnsVars, TypeOK
  <2>2. answer' \in [existed: BOOLEAN, returned: BOOLEAN]
    BY <1>8 DEF RemoveService, TypeOK
  <2>3. m_service_map' \in [Idents -> Infos \cup {NONE}]
    BY <1>8 DEF RemoveService, TypeOK
  <2> QED
    BY <1>8, <2>1, <2>2, <2>3 DEF RemoveService, TypeOK
<1>9. CASE UNCHANGED vars
  BY <1>9 DEF vars, clientVars, mdnsVars, TypeOK
<1> QED
  BY <1>1, <1>2, <1>3, <1>4, <1>5, <1>6, <1>7, <1>8, <1>9
     DEF Step, Background, JobStep, Adding, Withdrawing

(* The state of the publisher, its jobs and its back end always has the    *)
(* declared types.                                                         *)
THEOREM TypeCorrect == Spec => []TypeOK
<1>1. Spec => Init /\ [][Step]_vars
  BY DEF Spec, Step
<1> QED
  BY <1>1, InitType, StepType, PTL

-----------------------------------------------------------------------------
(* Handles.                                                                *)

LEMMA RangeType ==
  \A f \in [Idents -> Refs \cup {NONE}] :
    \A r : r \in Range(f) <=> \E id \in Idents : f[id] = r
  BY DEF Range

LEMMA InitHandles == Init => HandlesLive
  BY DEF Init, HandlesLive, Nothing

LEMMA StepHandles ==
  ASSUME TypeOK, TypeOK', HandlesLive, [Step]_vars
  PROVE  HandlesLive'
<1>1. ASSUME UNCHANGED <<registered, m_services, live>> PROVE HandlesLive'
  BY <1>1 DEF HandlesLive
<1>2. ASSUME NEW j \in Jobs, doPublishService(j) PROVE HandlesLive'
  <2>1. UNCHANGED m_services /\ registered[j] = NONE
    BY <1>2 DEF doPublishService
  <2>2. CASE UNCHANGED <<live, registered>>
    BY <1>1, <2>1, <2>2
  <2>3. ASSUME NEW id \in Idents, NEW r \in Refs,
               m_servmap[j][id] # NONE,
               live[r] = NONE,
               live' = [live EXCEPT ![r] = [id |-> id, info |-> m_servmap[j][id]]],
               registered' = [registered EXCEPT ![j] = r]
        PROVE  HandlesLive'
    <3> DEFINE rec == [id |-> id, info |-> m_servmap[j][id]]
    <3>1. rec # NONE
      <4>1. rec \in [id: Idents, info: Infos]
        BY <2>3 DEF TypeOK
      <4> QED
        BY <4>1
    <3>2. live' = [live EXCEPT ![r] = rec]
      BY <2>3
    <3> HIDE DEF rec
    <3>3. \A i \in Idents : m_services[i] # r
      BY <2>3 DEF HandlesLive, TypeOK
    <3>4. \A k \in Jobs : registered[k] # r
      BY <2>3 DEF HandlesLive, TypeOK
    <3>5. /\ live'[r] # NONE
          /\ \A s \in Refs \ {r} : live'[s] = live[s]
          /\ registered'[j] = r
          /\ \A k \in Jobs \ {j} : registered'[k] = registered[k]
      BY <2>3, <3>1, <3>2 DEF TypeOK
    <3>6. \A i \in Idents : m_services'[i] # NONE =>
            live'[m_services'[i]] # NONE /\ live'[m_services'[i]].id = i
      BY <2>1, <3>3, <3>5 DEF HandlesLive, TypeOK
    <3>7. ASSUME NEW k \in Jobs, registered'[k] # NONE
          PROVE  /\ live'[registered'[k]] # NONE
                 /\ registered'[k] \notin Range(m_services')
                 /\ \A l \in Jobs : registered'[l] = registered'[k] => l = k
      <4>1. CASE k = j
        BY <2>1, <3>3, <3>4, <3>5, <4>1, RangeType DEF TypeOK
      <4>2. CASE k # j
        BY <2>1, <3>4, <3>5, <3>7, <4>2 DEF HandlesLive, TypeOK
      <4> QED
        BY <4>1, <4>2
    <3> QED
      BY <3>6, <3>7 DEF HandlesLive
  <2> QED
    BY <1>2, <2>2, <2>3 DEF doPublishService, Pending
<1>3. ASSUME NEW j \in Jobs, RememberService(j) PROVE HandlesLive'
  <2> DEFINE r == registered[j]
             i == live[r].id
  <2>1. /\ r # NONE /\ r \in Refs /\ live[r] # NONE /\ i \in Idents
        /\ r \notin Range(m_services)
        /\ registered' = [registered EXCEPT ![j] = NONE]
        /\ UNCHANGED live
    BY <1>3 DEF RememberService, HandlesLive, TypeOK
  <2>2. CASE UNCHANGED m_services
    BY <2>1, <2>2 DEF HandlesLive, TypeOK
  <2>3. CASE m_services' = [m_services EXCEPT ![i] = r]
    <3>1. /\ m_services'[i] = r
          /\ \A k \in Idents \ {i} : m_services'[k] = m_services[k]
      BY <2>1, <2>3 DEF TypeOK
    <3>2. \A k \in Idents : m_services'[k] # NONE =>
            live'[m_services'[k]] # NONE /\ live'[m_services'[k]].id = k
      BY <2>1, <3>1 DEF HandlesLive
    <3>3. ASSUME NEW k \in Jobs, registered'[k] # NONE
          PROVE  /\ live'[registered'[k]] # NONE
                 /\ registered'[k] \notin Range(m_services')
                 /\ \A l \in Jobs : registered'[l] = registered'[k] => l = k
      <4>1. k # j /\ registered'[k] = registered[k] /\ registered[k] # r
        BY <2>1, <3>3 DEF HandlesLive, TypeOK
      <4>2. registered[k] \notin Range(m_services')
        BY <3>1, <3>3, <4>1, RangeType DEF HandlesLive, TypeOK
      <4> QED
        BY <2>1, <3>3, <4>1, <4>2 DEF HandlesLive, TypeOK
    <3> QED
      BY <3>2, <3>3 DEF HandlesLive
  <2> QED
    BY <1>3, <2>2, <2>3 DEF RememberService
<1>4. ASSUME NEW j \in Jobs, FinishJob(j) \/ ManagerDestroys(j) \/ ManagerStarts(j)
      PROVE  HandlesLive'
  BY <1>1, <1>4 DEF FinishJob, ManagerDestroys, ManagerStarts, mdnsVars
<1>5. CASE ManagerCloses
  BY <1>1, <1>5 DEF ManagerCloses, mdnsVars
<1>6. CASE Start
  BY <1>1, <1>6 DEF Start, mdnsVars
<1>7. ASSUME NEW id \in Idents, NEW info \in Infos, PublishService(id, info)
      PROVE  HandlesLive'
  BY <1>1, <1>7 DEF PublishService, mdnsVars
<1>8. CASE Stop
  <2>1. /\ \A id \in Idents : m_services'[id] = NONE
        /\ \A r \in Refs : r \notin Range(m_services) => live'[r] = live[r]
        /\ UNCHANGED registered
    BY <1>8 DEF Stop, doStop, Nothing, TypeOK
  <2> QED
    BY <2>1, RangeType DEF HandlesLive, TypeOK
<1>9. ASSUME NEW id \in Idents, RemoveService(id) PROVE HandlesLive'
  <2>1. UNCHANGED registered
    BY <1>9 DEF RemoveService
  <2>2. CASE UNCHANGED mdnsVars
    BY <1>1, <2>1, <2>2 DEF mdnsVars
  <2>3. ASSUME m_services[id] # NONE,
               live' = [live EXCEPT ![m_services[id]] = NONE],
               m_services' = [m_services EXCEPT ![id] = NONE]
        PROVE  HandlesLive'
    <3>1. /\ m_services'[id] = NONE
          /\ \A k \in Idents \ {id} : m_services'[k] = m_services[k]
          /\ \A r \in Refs : r # m_services[id] => live'[r] = live[r]
      BY <2>3 DEF TypeOK
    <3>2. \A k \in Idents : m_services'[k] # NONE =>
            live'[m_services'[k]] # NONE /\ live'[m_services'[k]].id = k
      BY <2>3, <3>1 DEF HandlesLive, TypeOK
    <3>3. ASSUME NEW k \in Jobs, registered[k] # NONE
          PROVE  /\ live'[registered[k]] # NONE
                 /\ registered[k] \notin Range(m_services')
                 /\ \A l \in Jobs : registered[l] = registered[k] => l = k
      <4>1. registered[k] # m_services[id]
        <5>1. m_services[id] \in Range(m_services)
          BY RangeType DEF TypeOK
        <5>2. registered[k] \notin Range(m_services)
          BY <3>3 DEF HandlesLive
        <5> QED
          BY ONLY <5>1, <5>2
      <4>2. registered[k] \notin Range(m_services')
        <5>1. ASSUME NEW l \in Idents, m_services'[l] = registered[k] PROVE FALSE
          <6>1. m_services[l] = registered[k]
            BY ONLY <3>1, <3>3, <5>1
          <6>2. m_services[l] \in Range(m_services)
            BY RangeType DEF TypeOK
          <6> QED
            BY <3>3, <6>1, <6>2 DEF HandlesLive
        <5>2. m_services' \in [Idents -> Refs \cup {NONE}]
          BY <2>3 DEF TypeOK
        <5> QED
          BY ONLY <5>1, <5>2, RangeType
      <4> QED
        BY <3>1, <3>3, <4>1, <4>2 DEF HandlesLive, TypeOK
    <3> QED
      BY <2>1, <3>2, <3>3 DEF HandlesLive
  <2> QED
    BY <1>9, <2>2, <2>3 DEF RemoveService, doRemoveService
<1>10. CASE UNCHANGED vars
  BY <1>1, <1>10 DEF vars, mdnsVars
<1> QED
  BY <1>2, <1>3, <1>4, <1>5, <1>6, <1>7, <1>8, <1>9, <1>10
     DEF Step, Background, JobStep, Adding, Withdrawing

(* No handle is deallocated twice or used afterwards, and none is held by  *)
(* two services or jobs, however removals, stops and publications cross.   *)
THEOREM HandlesStayLive == Spec => []HandlesLive
<1>1. Spec => Init /\ [][Step]_vars
  BY DEF Spec, Step
<1>2. TypeOK /\ TypeOK' /\ HandlesLive /\ [Step]_vars => HandlesLive'
  BY StepHandles
<1> QED
  BY <1>1, <1>2, InitHandles, TypeCorrect, PTL
-----------------------------------------------------------------------------
(* Clients that wait.  With withdrawals only while no job is queued or     *)
(* runs, each service is in at most one place: one job has yet to publish  *)
(* it, or one handle is live for it.                                       *)

PatientStep == Background \/ Adding \/ (Quiet /\ Withdrawing)

ManagerType == /\ status \in [Jobs -> {"absent", "queued", "running", "finished"}]
               /\ accepting \in BOOLEAN

(* Only a queued or running job has services left, and those as wanted.    *)
WaitingWanted ==
  \A j \in Jobs, id \in Idents : m_servmap[j][id] # NONE =>
    /\ status[j] \in {"queued", "running"}
    /\ m_started /\ m_service_map[id] = m_servmap[j][id]

RegisteredRuns == \A j \in Jobs : registered[j] # NONE => status[j] = "running"

LiveWanted == \A r \in Refs : live[r] # NONE =>
                m_started /\ m_service_map[live[r].id] = live[r].info

OnePlace ==
  /\ \A j, k \in Jobs, id \in Idents :
       m_servmap[j][id] # NONE /\ m_servmap[k][id] # NONE => j = k
  /\ \A j \in Jobs, r \in Refs : live[r] # NONE => m_servmap[j][live[r].id] = NONE
  /\ \A r, s \in Refs : live[r] # NONE /\ live[s] # NONE /\ live[r].id = live[s].id
       => r = s

(* NoLeakedRegistration, handle by handle. *)
LiveHeld == \A r \in Refs : live[r] # NONE =>
              (\E id \in Idents : m_services[id] = r) \/ (\E j \in Jobs : registered[j] = r)

WantedPlaced ==
  accepting /\ m_started =>
    \A id \in Idents \ Refusable : m_service_map[id] # NONE =>
      \/ \E j \in Jobs : m_servmap[j][id] # NONE
      \/ \E r \in Refs : live[r] # NONE /\ live[r].id = id

PlaceInv == /\ ManagerType /\ WaitingWanted /\ RegisteredRuns /\ LiveWanted
            /\ OnePlace /\ LiveHeld /\ WantedPlaced /\ RemoveAnswersExistence

(* What lets every disjunct below be read pointwise. *)
LEMMA ServmapApply ==
  ASSUME TypeOK
  PROVE  /\ \A j \in Jobs, id \in Idents : m_servmap[j][id] \in Infos \cup {NONE}
         /\ \A r \in Refs : live[r] # NONE => live[r].id \in Idents /\ live[r].info \in Infos
  BY DEF TypeOK

LEMMA HeldIsNoLeak ==
  ASSUME TypeOK PROVE LiveHeld <=> NoLeakedRegistration
<1>1. \A r : r \in Range(m_services) <=> \E id \in Idents : m_services[id] = r
  BY RangeType DEF TypeOK
<1>2. \A r : r \in Range(registered) <=> \E j \in Jobs : registered[j] = r
  BY DEF TypeOK, Range
<1> QED
  BY <1>1, <1>2 DEF LiveHeld, NoLeakedRegistration

LEMMA InitPlace == Init => PlaceInv
<1> SUFFICES ASSUME Init PROVE PlaceInv
  OBVIOUS
<1>1. /\ ManagerType /\ m_started = FALSE
      /\ \A j \in Jobs, id \in Idents : m_servmap[j][id] = NONE
      /\ \A j \in Jobs : registered[j] = NONE
      /\ \A r \in Refs : live[r] = NONE
      /\ answer.existed = FALSE /\ answer.returned = FALSE
  BY DEF Init, Manager!Init, ManagerType, Nothing
<1> QED
  BY <1>1 DEF PlaceInv, WaitingWanted, RegisteredRuns, LiveWanted, OnePlace,
              LiveHeld, WantedPlaced, RemoveAnswersExistence

(* While nothing is under way the handles that are live are in m_services. *)
LEMMA QuietPlaces ==
  ASSUME TypeOK, HandlesLive, PlaceInv, Quiet
  PROVE  /\ \A j \in Jobs, id \in Idents : m_servmap[j][id] = NONE
         /\ \A j \in Jobs : registered[j] = NONE
         /\ \A r \in Refs : live[r] # NONE => m_services[live[r].id] = r
<1>1. /\ \A j \in Jobs, id \in Idents : m_servmap[j][id] = NONE
      /\ \A j \in Jobs : registered[j] = NONE
  BY DEF PlaceInv, ManagerType, WaitingWanted, RegisteredRuns, Quiet
<1>2. ASSUME NEW r \in Refs, live[r] # NONE PROVE m_services[live[r].id] = r
  <2>1. PICK id \in Idents : m_services[id] = r
    BY <1>1, <1>2, NoneAssumption DEF PlaceInv, LiveHeld
  <2>2. r # NONE
    BY NoneAssumption
  <2> QED
    BY <2>1, <2>2 DEF HandlesLive
<1> QED
  BY <1>1, <1>2
(* The manager moves a job that holds nothing, or starts one.              *)
LEMMA StatusPlace ==
  ASSUME TypeOK, PlaceInv, ManagerType',
         UNCHANGED <<m_service_map, m_started, m_servmap, registered, m_services, live,
                     answer>>,
         accepting' => accepting,
         \A j \in Jobs : \/ status'[j] \in {status[j], "running"}
                         \/ /\ registered[j] = NONE
                            /\ \A id \in Idents : m_servmap[j][id] = NONE
  PROVE  PlaceInv'
<1>1. WaitingWanted' /\ RegisteredRuns'
  BY DEF PlaceInv, WaitingWanted, RegisteredRuns
<1>2. LiveWanted' /\ OnePlace' /\ LiveHeld'
  BY DEF PlaceInv, LiveWanted, OnePlace, LiveHeld
<1>3. WantedPlaced' /\ RemoveAnswersExistence'
  BY DEF PlaceInv, WantedPlaced, RemoveAnswersExistence
<1> QED
  BY <1>1, <1>2, <1>3 DEF PlaceInv

LEMMA ManagerPlace ==
  ASSUME TypeOK, PlaceInv,
         \/ \E j \in Jobs : FinishJob(j) \/ ManagerDestroys(j) \/ ManagerStarts(j)
         \/ UNCHANGED vars
  PROVE  PlaceInv'
<1>1. ASSUME NEW j \in Jobs, FinishJob(j) PROVE PlaceInv'
  <2>1. /\ status[j] = "running" /\ status' = [status EXCEPT ![j] = "finished"]
        /\ UNCHANGED accepting /\ registered[j] = NONE
        /\ \A id \in Idents : m_servmap[j][id] = NONE
    BY <1>1 DEF FinishJob, Manager!Finish, Pending
  <2> QED
    BY <1>1, <2>1, StatusPlace
       DEF FinishJob, clientVars, mdnsVars, ManagerType, PlaceInv
<1>2. ASSUME NEW j \in Jobs, ManagerDestroys(j) PROVE PlaceInv'
  <2>1. /\ status[j] = "finished" /\ status' = [status EXCEPT ![j] = "absent"]
        /\ UNCHANGED accepting
    BY <1>2 DEF ManagerDestroys, Manager!Destroy
  <2>2. registered[j] = NONE /\ \A id \in Idents : m_servmap[j][id] = NONE
    BY <2>1 DEF PlaceInv, WaitingWanted, RegisteredRuns
  <2> QED
    BY <1>2, <2>1, <2>2, StatusPlace
       DEF ManagerDestroys, clientVars, mdnsVars, ManagerType, PlaceInv
<1>3. ASSUME NEW j \in Jobs, ManagerStarts(j) PROVE PlaceInv'
  <2>1. status' = [status EXCEPT ![j] = "running"] /\ UNCHANGED accepting
    BY <1>3 DEF ManagerStarts, Manager!Start
  <2> QED
    BY <1>3, <2>1, StatusPlace
       DEF ManagerStarts, clientVars, mdnsVars, ManagerType, PlaceInv
<1>4. CASE UNCHANGED vars
  BY <1>4, StatusPlace
     DEF vars, clientVars, managerVars, mdnsVars, ManagerType, PlaceInv
<1> QED
  BY <1>1, <1>2, <1>3, <1>4

LEMMA ClosePlace ==
  ASSUME TypeOK, PlaceInv, ManagerCloses
  PROVE  PlaceInv'
<1>1. /\ accepting' = FALSE
      /\ status' = [j \in Jobs |-> IF status[j] = "queued" THEN "absent" ELSE status[j]]
      /\ UNCHANGED <<m_service_map, m_started, registered, m_services, live, answer>>
  BY DEF ManagerCloses, Manager!Close, clientVars, mdnsVars
<1>2. \A j \in Jobs, id \in Idents :
        IF status[j] = "queued" THEN m_servmap'[j][id] = NONE
                                ELSE m_servmap'[j][id] = m_servmap[j][id]
  BY DEF ManagerCloses, Nothing
<1>3. ManagerType'
  BY <1>1 DEF PlaceInv, ManagerType
<1>4. WaitingWanted' /\ RegisteredRuns'
  BY <1>1, <1>2 DEF PlaceInv, ManagerType, WaitingWanted, RegisteredRuns
<1>5. LiveWanted' /\ LiveHeld'
  BY <1>1 DEF PlaceInv, LiveWanted, LiveHeld
<1>6. OnePlace'
  <2>1. \A j \in Jobs, id \in Idents :
          m_servmap'[j][id] # NONE => m_servmap[j][id] # NONE
    BY <1>2
  <2>2. \A j \in Jobs, r \in Refs : live'[r] # NONE => m_servmap'[j][live'[r].id] = NONE
    BY <1>1, <2>1, ServmapApply DEF PlaceInv, OnePlace
  <2> QED
    BY <1>1, <2>1, <2>2 DEF PlaceInv, OnePlace
<1> QED
  BY <1>1, <1>3, <1>4, <1>5, <1>6 DEF PlaceInv, WantedPlaced, RemoveAnswersExistence

(* A service goes from the job to a new handle, or is refused.             *)
LEMMA PublishPlace ==
  ASSUME TypeOK, PlaceInv, NEW j \in Jobs, doPublishService(j)
  PROVE  PlaceInv'
<1>1. /\ status[j] = "running" /\ registered[j] = NONE
      /\ UNCHANGED <<m_service_map, m_started, accepting, status, m_services, answer>>
  BY DEF doPublishService, clientVars, managerVars
<1>2. PICK id \in Idents :
        /\ m_servmap[j][id] # NONE
        /\ \/ \E r \in Refs :
                /\ live[r] = NONE
                /\ live' = [live EXCEPT ![r] = [id |-> id, info |-> m_servmap[j][id]]]
                /\ registered' = [registered EXCEPT ![j] = r]
           \/ id \in Refusable /\ UNCHANGED <<live, registered>>
        /\ m_servmap' = [m_servmap EXCEPT ![j][id] = NONE]
  BY DEF doPublishService, Pending
<1>3. /\ m_servmap'[j][id] = NONE
      /\ \A k \in Jobs, i \in Idents : k # j \/ i # id => m_servmap'[k][i] = m_servmap[k][i]
  BY <1>2 DEF TypeOK
<1>4. \A k \in Jobs, i \in Idents :
        m_servmap'[k][i] # NONE => m_servmap[k][i] # NONE /\ m_servmap'[k][i] = m_servmap[k][i]
  BY <1>3
<1>5. ManagerType' /\ WaitingWanted' /\ RemoveAnswersExistence'
  BY <1>1, <1>4 DEF PlaceInv, ManagerType, WaitingWanted, RemoveAnswersExistence
<1>6. CASE id \in Refusable /\ UNCHANGED <<live, registered>>
  <2>1. RegisteredRuns' /\ LiveWanted' /\ LiveHeld'
    BY <1>1, <1>6 DEF PlaceInv, RegisteredRuns, LiveWanted, LiveHeld
  <2>2. \A k \in Jobs, s \in Refs : live'[s] # NONE => m_servmap'[k][live'[s].id] = NONE
    BY <1>4, <1>6, ServmapApply DEF PlaceInv, OnePlace
  <2>3. OnePlace'
    BY <1>4, <1>6, <2>2 DEF PlaceInv, OnePlace
  <2>4. WantedPlaced'
    BY <1>1, <1>3, <1>6 DEF PlaceInv, WantedPlaced
  <2> QED
    BY <1>5, <2>1, <2>3, <2>4 DEF PlaceInv
<1>7. ASSUME NEW r \in Refs, live[r] = NONE,
             live' = [live EXCEPT ![r] = [id |-> id, info |-> m_servmap[j][id]]],
             registered' = [registered EXCEPT ![j] = r]
      PROVE  PlaceInv'
  <2> DEFINE rec == [id |-> id, info |-> m_servmap[j][id]]
  <2>1. rec # NONE /\ rec.id = id /\ rec.info = m_servmap[j][id]
    <3>1. rec \in [id: Idents, info: Infos]
      BY <1>2, ServmapApply
    <3> QED
      BY <3>1
  <2>2. live' = [live EXCEPT ![r] = rec]
    BY <1>7
  <2> HIDE DEF rec
  <2>3. /\ live'[r] # NONE /\ live'[r].id = id /\ live'[r].info = m_servmap[j][id]
        /\ \A s \in Refs \ {r} : live'[s] = live[s]
        /\ registered'[j] = r
        /\ \A k \in Jobs \ {j} : registered'[k] = registered[k]
    BY <1>7, <2>1, <2>2 DEF TypeOK
  <2>4. RegisteredRuns'
    BY <1>1, <2>3 DEF PlaceInv, RegisteredRuns
  <2>5. LiveWanted'
    BY <1>1, <1>2, <2>3 DEF PlaceInv, LiveWanted, WaitingWanted
  <2>6. LiveHeld'
    BY <1>1, <2>3 DEF PlaceInv, LiveHeld
  <2>7. \A s \in Refs : live[s] # NONE => live[s].id # id
    BY <1>2 DEF PlaceInv, OnePlace
  <2>8. \A k \in Jobs, s \in Refs : live'[s] # NONE => m_servmap'[k][live'[s].id] = NONE
    <3>1. \A k \in Jobs : m_servmap'[k][id] = NONE
      BY <1>2, <1>3 DEF PlaceInv, OnePlace
    <3>2. \A k \in Jobs, s \in Refs \ {r} :
            live[s] # NONE => m_servmap'[k][live[s].id] = NONE
      BY <1>4, ServmapApply DEF PlaceInv, OnePlace
    <3> QED
      BY <2>3, <3>1, <3>2
  <2>9. \A s, t \in Refs : live'[s] # NONE /\ live'[t] # NONE /\ live'[s].id = live'[t].id
          => s = t
    BY <2>3, <2>7 DEF PlaceInv, OnePlace
  <2>10. OnePlace'
    <3>1. \A k, l \in Jobs, i \in Idents :
            m_servmap'[k][i] # NONE /\ m_servmap'[l][i] # NONE => k = l
      BY <1>4 DEF PlaceInv, OnePlace
    <3> QED
      BY <2>8, <2>9, <3>1 DEF OnePlace
  <2>11. WantedPlaced'
    BY <1>1, <1>3, <1>7, <2>3 DEF PlaceInv, WantedPlaced
  <2> QED
    BY <1>5, <2>4, <2>5, <2>6, <2>10, <2>11 DEF PlaceInv
<1> QED
  BY <1>2, <1>6, <1>7

(* The job finds no other registration of its service, so that none leaks. *)
LEMMA RememberPlace ==
  ASSUME TypeOK, HandlesLive, PlaceInv, NEW j \in Jobs, RememberService(j)
  PROVE  PlaceInv'
<1> DEFINE r == registered[j]
           i == live[r].id
<1>1. /\ r # NONE /\ r \in Refs /\ live[r] # NONE /\ i \in Idents
      /\ r \notin Range(m_services)
      /\ UNCHANGED <<m_service_map, m_started, accepting, status, m_servmap, live, answer>>
      /\ registered' = [registered EXCEPT ![j] = NONE]
  BY DEF RememberService, HandlesLive, TypeOK, clientVars, managerVars
<1>2. m_services[i] = NONE
  <2>1. CASE m_services[i] # NONE
    <3>1. /\ m_services[i] \in Refs /\ live[m_services[i]] # NONE
          /\ live[m_services[i]].id = i
      BY <1>1, <2>1 DEF HandlesLive, TypeOK
    <3>2. m_services[i] = r
      BY <1>1, <3>1 DEF PlaceInv, OnePlace
    <3> QED
      BY <1>1, <3>2, RangeType DEF TypeOK
  <2> QED
    BY <2>1
<1>3. m_services' = [m_services EXCEPT ![i] = r]
  BY <1>2 DEF RememberService
<1>4. /\ m_services'[i] = r
      /\ \A k \in Idents \ {i} : m_services'[k] = m_services[k]
      /\ registered'[j] = NONE
      /\ \A k \in Jobs \ {j} : registered'[k] = registered[k]
  BY <1>1, <1>3 DEF TypeOK
<1>5. LiveHeld'
  <2>1. ASSUME NEW s \in Refs, live'[s] # NONE
        PROVE  (\E id \in Idents : m_services'[id] = s) \/ (\E k \in Jobs : registered'[k] = s)
    <3>1. s # NONE
      BY NoneAssumption
    <3>2. CASE s = r
      BY <1>1, <1>4, <3>2
    <3>3. CASE s # r
      <4>1. \/ \E id \in Idents : m_services[id] = s
            \/ \E k \in Jobs : registered[k] = s
        BY <1>1, <2>1 DEF PlaceInv, LiveHeld
      <4> QED
        BY <1>1, <1>2, <1>4, <3>1, <3>3, <4>1
    <3> QED
      BY <3>2, <3>3
  <2> QED
    BY <2>1 DEF LiveHeld
<1>6. RegisteredRuns'
  BY <1>1, <1>4 DEF PlaceInv, RegisteredRuns
<1> QED
  BY <1>1, <1>5, <1>6
     DEF PlaceInv, ManagerType, WaitingWanted, LiveWanted, OnePlace, WantedPlaced,
         RemoveAnswersExistence
(* A new job takes services that are nowhere, while the manager runs.      *)
LEMMA AddPlace ==
  ASSUME TypeOK, PlaceInv,
         NEW services \in [Idents -> Infos \cup {NONE}], AddPublishJob(services),
         \A id \in Idents : services[id] # NONE =>
           /\ \A j \in Jobs : m_servmap[j][id] = NONE
           /\ \A r \in Refs : live[r] # NONE => live[r].id # id
           /\ m_started' /\ m_service_map'[id] = services[id],
         m_started => m_started',
         \A id \in Idents : m_service_map[id] # NONE => m_service_map'[id] = m_service_map[id],
         accepting /\ m_started' =>
           \A id \in Idents : m_service_map'[id] # NONE =>
             services[id] # NONE \/ (m_started /\ m_service_map[id] # NONE),
         UNCHANGED <<registered, m_services, live, answer>>
  PROVE  PlaceInv'
<1> DEFINE Added(j) == /\ status[j] = "absent"
                       /\ status' = [status EXCEPT ![j] = "queued"]
                       /\ m_servmap' = [m_servmap EXCEPT ![j] = services]
                       /\ UNCHANGED accepting
<1>1. \/ \E j \in Jobs : Added(j)
      \/ UNCHANGED <<status, m_servmap, accepting>> /\ ~accepting
  BY DEF AddPublishJob, Manager!Submit, managerVars
<1>2. UNCHANGED accepting
  BY <1>1
<1>3. \A j \in Jobs : status'[j] = status[j] \/ (status[j] = "absent" /\ status'[j] = "queued")
  BY <1>1 DEF PlaceInv, ManagerType
<1>4. ManagerType'
  BY <1>1, <1>2 DEF PlaceInv, ManagerType
<1>5. RegisteredRuns'
  BY <1>3 DEF PlaceInv, RegisteredRuns
<1>6. LiveWanted'
  <2>1. \A r \in Refs : live[r] # NONE => m_service_map[live[r].id] # NONE
    BY NoneAssumption, ServmapApply DEF PlaceInv, LiveWanted
  <2> QED
    BY <2>1, ServmapApply DEF PlaceInv, LiveWanted
<1>7. LiveHeld' /\ RemoveAnswersExistence'
  BY <1>2 DEF PlaceInv, LiveHeld, RemoveAnswersExistence
<1>8. \A j \in Jobs, id \in Idents : m_servmap[j][id] # NONE =>
        m_started /\ m_service_map'[id] = m_servmap[j][id]
  BY DEF PlaceInv, WaitingWanted
<1>9. CASE UNCHANGED <<status, m_servmap, accepting>> /\ ~accepting
  BY <1>4, <1>5, <1>6, <1>7, <1>8, <1>9
     DEF PlaceInv, WaitingWanted, OnePlace, WantedPlaced
<1>10. ASSUME NEW j \in Jobs, Added(j) PROVE PlaceInv'
  <2>1. /\ \A id \in Idents : m_servmap[j][id] = NONE
        /\ m_servmap'[j] = services
        /\ \A k \in Jobs \ {j} : m_servmap'[k] = m_servmap[k]
        /\ status'[j] = "queued"
    BY <1>10 DEF PlaceInv, WaitingWanted, ManagerType, TypeOK
  <2>2. WaitingWanted'
    <3>1. ASSUME NEW k \in Jobs, NEW id \in Idents, m_servmap'[k][id] # NONE
          PROVE  /\ status'[k] \in {"queued", "running"}
                 /\ m_started' /\ m_service_map'[id] = m_servmap'[k][id]
      <4>1. CASE k = j
        BY <2>1, <3>1, <4>1
      <4>2. CASE k # j
        BY <1>3, <1>8, <2>1, <3>1, <4>2 DEF PlaceInv, WaitingWanted
      <4> QED
        BY <4>1, <4>2
    <3> QED
      BY <3>1 DEF WaitingWanted
  <2>3. OnePlace'
    <3>1. \A k, l \in Jobs, id \in Idents :
            m_servmap'[k][id] # NONE /\ m_servmap'[l][id] # NONE => k = l
      BY <2>1 DEF PlaceInv, OnePlace
    <3>2. \A k \in Jobs, r \in Refs : live'[r] # NONE => m_servmap'[k][live'[r].id] = NONE
      BY <2>1, ServmapApply DEF PlaceInv, OnePlace
    <3> QED
      BY <3>1, <3>2 DEF PlaceInv, OnePlace
  <2>4. WantedPlaced'
    <3> SUFFICES ASSUME accepting, m_started', NEW id \in Idents \ Refusable,
                        m_service_map'[id] # NONE
                 PROVE  \/ \E k \in Jobs : m_servmap'[k][id] # NONE
                        \/ \E r \in Refs : live'[r] # NONE /\ live'[r].id = id
      BY <1>2 DEF WantedPlaced
    <3>1. CASE services[id] # NONE
      BY <2>1, <3>1
    <3>2. CASE m_started /\ m_service_map[id] # NONE
      <4>1. \/ \E k \in Jobs : m_servmap[k][id] # NONE
            \/ \E r \in Refs : live[r] # NONE /\ live[r].id = id
        BY <3>2 DEF PlaceInv, WantedPlaced
      <4> QED
        BY <2>1, <4>1
    <3> QED
      BY <3>1, <3>2
  <2> QED
    BY <1>4, <1>5, <1>6, <1>7, <2>2, <2>3, <2>4 DEF PlaceInv
<1> QED
  BY <1>1, <1>9, <1>10

LEMMA AddingPlace ==
  ASSUME TypeOK, PlaceInv, Adding
  PROVE  PlaceInv'
<1>1. CASE Start
  <2>1. /\ ~m_started /\ m_started' /\ AddPublishJob(m_service_map)
        /\ UNCHANGED <<m_service_map, registered, m_services, live, answer>>
    BY <1>1 DEF Start, mdnsVars
  <2>2. /\ \A j \in Jobs, id \in Idents : m_servmap[j][id] = NONE
        /\ \A r \in Refs : live[r] = NONE
    BY <2>1 DEF PlaceInv, WaitingWanted, LiveWanted
  <2>3. m_service_map \in [Idents -> Infos \cup {NONE}]
    BY DEF TypeOK
  <2> QED
    BY <2>1, <2>2, <2>3, AddPlace
<1>2. ASSUME NEW id \in Idents, NEW info \in Infos, PublishService(id, info)
      PROVE  PlaceInv'
  <2> DEFINE services == [Nothing EXCEPT ![id] = info]
  <2>1. /\ m_service_map[id] = NONE
        /\ m_service_map'[id] = info
        /\ \A i \in Idents \ {id} : m_service_map'[i] = m_service_map[i]
        /\ UNCHANGED <<m_started, registered, m_services, live, answer>>
    BY <1>2 DEF PublishService, mdnsVars, TypeOK
  <2>2. /\ services \in [Idents -> Infos \cup {NONE}]
        /\ services[id] = info /\ \A i \in Idents \ {id} : services[i] = NONE
    BY NothingType DEF Nothing
  <2>3. /\ \A j \in Jobs : m_servmap[j][id] = NONE
        /\ \A r \in Refs : live[r] # NONE => live[r].id # id
    BY <2>1, ServmapApply, NoneAssumption DEF PlaceInv, WaitingWanted, LiveWanted
  <2>4. CASE m_started
    <3>1. AddPublishJob(services)
      BY <1>2, <2>4 DEF PublishService
    <3> HIDE DEF services
    <3>2. \A i \in Idents : services[i] # NONE => i = id
      BY <2>2
    <3>3. info # NONE
      BY NoneAssumption
    <3>4. \A i \in Idents : services[i] # NONE =>
            /\ \A j \in Jobs : m_servmap[j][i] = NONE
            /\ \A r \in Refs : live[r] # NONE => live[r].id # i
            /\ m_started' /\ m_service_map'[i] = services[i]
      BY <2>1, <2>2, <2>3, <2>4, <3>2
    <3>5. \A i \in Idents : m_service_map[i] # NONE => m_service_map'[i] = m_service_map[i]
      BY <2>1
    <3>6. \A i \in Idents : m_service_map'[i] # NONE =>
            services[i] # NONE \/ (m_started /\ m_service_map[i] # NONE)
      BY <2>1, <2>2, <2>4, <3>3
    <3> QED
      BY <2>1, <2>2, <3>1, <3>4, <3>5, <3>6, AddPlace
  <2>5. CASE ~m_started
    <3>1. UNCHANGED <<status, accepting, m_servmap>>
      BY <1>2, <2>5 DEF PublishService, managerVars
    <3>2. /\ \A j \in Jobs, i \in Idents : m_servmap[j][i] = NONE
          /\ \A r \in Refs : live[r] = NONE
      BY <2>5 DEF PlaceInv, WaitingWanted, LiveWanted
    <3> QED
      BY <2>1, <2>5, <3>1, <3>2
         DEF PlaceInv, ManagerType, WaitingWanted, RegisteredRuns, LiveWanted, OnePlace,
             LiveHeld, WantedPlaced, RemoveAnswersExistence
  <2> QED
    BY <2>4, <2>5
<1> QED
  BY <1>1, <1>2 DEF Adding

(* Withdrawn while nothing is under way, a service has no handle any more. *)
LEMMA WithdrawPlace ==
  ASSUME TypeOK, HandlesLive, PlaceInv, Quiet, Withdrawing
  PROVE  PlaceInv'
<1>1. CASE Stop
  <2>1. /\ m_started' = FALSE
        /\ UNCHANGED <<m_service_map, status, accepting, m_servmap, registered, answer>>
        /\ \A r \in Refs : live'[r] = IF r \in Range(m_services) THEN NONE ELSE live[r]
    BY <1>1 DEF Stop, doStop, managerVars
  <2>2. \A r \in Refs : live'[r] = NONE
    BY <2>1, QuietPlaces, RangeType, ServmapApply DEF TypeOK
  <2> QED
    BY <2>1, <2>2, QuietPlaces
       DEF PlaceInv, ManagerType, WaitingWanted, RegisteredRuns, LiveWanted, OnePlace,
           LiveHeld, WantedPlaced, RemoveAnswersExistence
<1>2. ASSUME NEW id \in Idents, RemoveService(id) PROVE PlaceInv'
  <2>1. /\ m_service_map'[id] = NONE
        /\ \A i \in Idents \ {id} : m_service_map'[i] = m_service_map[i]
        /\ UNCHANGED <<m_started, status, accepting, m_servmap, registered>>
    BY <1>2 DEF RemoveService, managerVars, TypeOK
  <2>2. /\ \A r \in Refs : live'[r] \in {live[r], NONE}
        /\ \A r \in Refs : live[r] # NONE =>
             IF live[r].id = id THEN live'[r] = NONE ELSE live'[r] = live[r]
        /\ \A i \in Idents \ {id} : m_services'[i] = m_services[i]
    <3>1. CASE m_service_map[id] # NONE /\ m_started /\ m_services[id] # NONE
      <4>1. /\ live' = [live EXCEPT ![m_services[id]] = NONE]
            /\ m_services' = [m_services EXCEPT ![id] = NONE]
            /\ m_services[id] \in Refs /\ live[m_services[id]].id = id
        BY <1>2, <3>1 DEF RemoveService, doRemoveService, HandlesLive, TypeOK
      <4>2. \A r \in Refs : live'[r] = IF r = m_services[id] THEN NONE ELSE live[r]
        BY <4>1 DEF TypeOK
      <4>3. \A i \in Idents \ {id} : m_services'[i] = m_services[i]
        BY <4>1 DEF TypeOK
      <4> QED
        BY <4>1, <4>2, <4>3, QuietPlaces
    <3>2. CASE ~(m_service_map[id] # NONE /\ m_started /\ m_services[id] # NONE)
      <4>1. UNCHANGED <<live, m_services>>
        BY <1>2, <3>2 DEF RemoveService, doRemoveService, mdnsVars
      <4>2. \A r \in Refs : live[r] # NONE => live[r].id # id
        <5>1. ASSUME NEW r \in Refs, live[r] # NONE, live[r].id = id PROVE FALSE
          <6>1. m_started /\ m_service_map[id] # NONE
            BY <5>1, ServmapApply, NoneAssumption DEF PlaceInv, LiveWanted
          <6>2. m_services[id] = r /\ r # NONE
            BY <5>1, QuietPlaces, NoneAssumption
          <6> QED
            BY <3>2, <6>1, <6>2
        <5> QED
          BY <5>1
      <4> QED
        BY <4>1, <4>2
    <3> QED
      BY <3>1, <3>2
  <2>3. \A r \in Refs : live'[r] # NONE =>
          live[r] # NONE /\ live'[r] = live[r] /\ live[r].id # id
    BY <2>2
  <2>4. ManagerType' /\ WaitingWanted' /\ RegisteredRuns'
    BY <2>1, QuietPlaces DEF PlaceInv, ManagerType, WaitingWanted, RegisteredRuns
  <2>5. LiveWanted'
    BY <2>1, <2>3, ServmapApply DEF PlaceInv, LiveWanted
  <2>6. OnePlace'
    <3>1. \A r, s \in Refs :
            live'[r] # NONE /\ live'[s] # NONE /\ live'[r].id = live'[s].id => r = s
      BY <2>3 DEF PlaceInv, OnePlace
    <3>2. \A j \in Jobs, i \in Idents : m_servmap'[j][i] = NONE
      BY <2>1, QuietPlaces
    <3> QED
      BY <2>3, <3>1, <3>2, ServmapApply DEF OnePlace
  <2>7. LiveHeld'
    <3>1. \A r \in Refs : live'[r] # NONE => m_services'[live[r].id] = r
      BY <2>2, <2>3, QuietPlaces, ServmapApply
    <3> QED
      BY <2>3, <3>1, ServmapApply DEF LiveHeld
  <2>8. WantedPlaced'
    <3> SUFFICES ASSUME accepting, m_started, NEW i \in Idents \ Refusable,
                        m_service_map'[i] # NONE
                 PROVE  \E r \in Refs : live'[r] # NONE /\ live'[r].id = i
      BY <2>1 DEF WantedPlaced
    <3>1. i # id /\ m_service_map[i] # NONE
      BY <2>1
    <3>2. PICK r \in Refs : live[r] # NONE /\ live[r].id = i
      BY <3>1, QuietPlaces DEF PlaceInv, WantedPlaced
    <3> QED
      BY <2>2, <3>1, <3>2
  <2>9. RemoveAnswersExistence'
    <3> SUFFICES ASSUME accepting, Refusable = {}
                 PROVE  answer'.returned <=> answer'.existed
      BY <2>1 DEF RemoveAnswersExistence
    <3> DEFINE existed  == m_service_map[id] # NONE
               returned == existed /\ (m_started => m_services[id] # NONE)
    <3>1. answer' = [existed |-> existed, returned |-> returned]
      BY <1>2 DEF RemoveService
    <3>2. existed => returned
      <4> SUFFICES ASSUME existed, m_started PROVE m_services[id] # NONE
        OBVIOUS
      <4>1. PICK r \in Refs : live[r] # NONE /\ live[r].id = id
        BY QuietPlaces DEF PlaceInv, WantedPlaced
      <4> QED
        BY <4>1, QuietPlaces, NoneAssumption
    <3>3. returned => existed
      OBVIOUS
    <3> HIDE DEF existed, returned
    <3>4. answer'.existed = existed /\ answer'.returned = returned
      BY <3>1
    <3> QED
      BY <3>2, <3>3, <3>4
  <2> QED
    BY <2>4, <2>5, <2>6, <2>7, <2>8, <2>9 DEF PlaceInv
<1> QED
  BY <1>1, <1>2 DEF Withdrawing
LEMMA StepPlace ==
  ASSUME TypeOK, HandlesLive, PlaceInv, [PatientStep]_vars
  PROVE  PlaceInv'
BY ManagerPlace, ClosePlace, PublishPlace, RememberPlace, AddingPlace, WithdrawPlace
   DEF PatientStep, Background, JobStep

PatientInv == TypeOK /\ HandlesLive /\ PlaceInv

LEMMA PatientInvariance == PatientSpec => []PatientInv
<1>1. PatientSpec => Init /\ [][PatientStep]_vars
  BY DEF PatientSpec, PatientStep
<1>2. Init => PatientInv
  BY InitType, InitHandles, InitPlace DEF PatientInv
<1>3. PatientInv /\ [PatientStep]_vars => PatientInv'
  <2>1. [PatientStep]_vars => [Step]_vars
    BY DEF PatientStep, Step
  <2> QED
    BY <2>1, StepType, StepHandles, StepPlace DEF PatientInv
<1> QED
  BY <1>1, <1>2, <1>3, PTL

LEMMA PlacesMatch == PatientInv => PublishedMatches
<1> SUFFICES ASSUME PatientInv, Quiet
             PROVE  /\ Published \subseteq Wanted
                    /\ accepting => \A s \in Wanted : s \in Published \/ s.id \in Refusable
  BY DEF PublishedMatches
<1> USE DEF PatientInv
<1>1. \A r \in Refs : live[r] # NONE =>
        /\ live[r] = [id |-> live[r].id, info |-> live[r].info]
        /\ m_started /\ m_service_map[live[r].id] = live[r].info
        /\ m_service_map[live[r].id] # NONE /\ live[r].id \in Idents
  <2> SUFFICES ASSUME NEW r \in Refs, live[r] # NONE
               PROVE  /\ live[r] = [id |-> live[r].id, info |-> live[r].info]
                      /\ m_started /\ m_service_map[live[r].id] = live[r].info
                      /\ m_service_map[live[r].id] # NONE /\ live[r].id \in Idents
    OBVIOUS
  <2>1. live[r] \in [id: Idents, info: Infos]
    BY DEF TypeOK
  <2> QED
    BY <2>1, NoneAssumption DEF PlaceInv, LiveWanted
<1>2. Published \subseteq Wanted
  <2> SUFFICES ASSUME NEW r \in Refs, live[r] # NONE PROVE live[r] \in Wanted
    BY DEF Published
  <2> DEFINE i == live[r].id
  <2>1. i \in Idents /\ m_service_map[i] # NONE /\ m_started
        /\ live[r] = [id |-> i, info |-> m_service_map[i]]
    BY <1>1
  <2> HIDE DEF i
  <2> QED
    BY <2>1 DEF Wanted
<1>3. ASSUME accepting, NEW s \in Wanted PROVE s \in Published \/ s.id \in Refusable
  <2>1. PICK i \in Idents : /\ m_started /\ m_service_map[i] # NONE
                            /\ s = [id |-> i, info |-> m_service_map[i]]
    BY DEF Wanted
  <2>2. CASE i \in Refusable
    BY <2>1, <2>2
  <2>3. CASE i \notin Refusable
    <3>1. PICK r \in Refs : live[r] # NONE /\ live[r].id = i
      BY <1>3, <2>1, <2>3, QuietPlaces DEF PlaceInv, WantedPlaced
    <3>2. live[r] = s
      BY <1>1, <2>1, <3>1
    <3> QED
      BY <3>1, <3>2 DEF Published
  <2> QED
    BY <2>2, <2>3
<1> QED
  BY <1>2, <1>3

(* Zeroconf.h:55-69: when no publication is under way, what is published   *)
(* is what was added and not removed, and after Stop nothing, for clients  *)
(* that withdraw only then.                                                *)
THEOREM PublishedAsWanted == PatientSpec => []PublishedMatches
  BY PatientInvariance, PlacesMatch, PTL

(* doStop finds every registration, or a job is about to enter it: no two  *)
(* jobs register one service, so m_services.insert never drops a handle.   *)
THEOREM NoHandleLeaked == PatientSpec => []NoLeakedRegistration
<1>1. PatientInv => NoLeakedRegistration
  BY HeldIsNoLeak DEF PatientInv, PlaceInv
<1> QED
  BY <1>1, PatientInvariance, PTL

(* RemoveService returns false only for a service that was not there, if   *)
(* nothing is refused, the manager runs and no publication is under way.   *)
THEOREM RemoveAnswersRight == PatientSpec => []RemoveAnswersExistence
<1>1. PatientInv => RemoveAnswersExistence
  BY DEF PatientInv, PlaceInv
<1> QED
  BY <1>1, PatientInvariance, PTL

-----------------------------------------------------------------------------
(* The publisher as a client of the job manager.                           *)

LEMMA SubmitsOrNot ==
  ASSUME NEW services, AddPublishJob(services)
  PROVE  [Manager!Next]_managerVars
<1>1. ASSUME NEW j \in Jobs, Manager!Submit(j, LOW) PROVE Manager!Next
  <2>1. LOW \in Manager!Priorities
    BY DEF LOW, Manager!Priorities
  <2> QED
    BY <1>1, <2>1 DEF Manager!Next
<1> QED
  BY <1>1 DEF AddPublishJob, managerVars

(* All that the publisher, its clients and its jobs do to the job manager  *)
(* are steps of JobService: it asks no more of the manager than            *)
(* ManagerImplementsService says it does (Zeroconf.cpp:77 and :109 add     *)
(* jobs, and nothing withdraws or pauses them).                            *)
THEOREM PublisherIsClient == Spec => Manager!Spec
<1>1. Init => Manager!Init
  BY DEF Init
<1>2. [Step]_vars => [Manager!Next]_managerVars
  <2> SUFFICES ASSUME [Step]_vars PROVE [Manager!Next]_managerVars
    OBVIOUS
  <2>1. ASSUME NEW j \in Jobs, doPublishService(j) \/ RememberService(j)
        PROVE  UNCHANGED managerVars
    BY <2>1 DEF doPublishService, RememberService
  <2>2. ASSUME NEW j \in Jobs, FinishJob(j) \/ ManagerDestroys(j) \/ ManagerStarts(j)
        PROVE  Manager!Next
    BY <2>2 DEF FinishJob, ManagerDestroys, ManagerStarts, Manager!Next
  <2>3. CASE ManagerCloses
    BY <2>3 DEF ManagerCloses, Manager!Next
  <2>4. CASE Start
    BY <2>4, SubmitsOrNot DEF Start
  <2>5. ASSUME NEW id \in Idents, NEW info \in Infos, PublishService(id, info)
        PROVE  [Manager!Next]_managerVars
    BY <2>5, SubmitsOrNot DEF PublishService
  <2>6. CASE Withdrawing
    BY <2>6 DEF Withdrawing, Stop, RemoveService
  <2>7. CASE UNCHANGED vars
    BY <2>7 DEF vars
  <2> QED
    BY <2>1, <2>2, <2>3, <2>4, <2>5, <2>6, <2>7 DEF Step, Background, JobStep, Adding
<1> QED
  BY <1>1, <1>2, PTL DEF Spec, Step, Manager!Spec, Manager!vars, managerVars
=============================================================================
