----------------------------- MODULE Replicas -----------------------------
(***************************************************************************)
(* Two replicas of each of the three CRDTs.  They share nothing, so one    *)
(* behaviour exercises one of them, the subject.                           *)
(***************************************************************************)
EXTENDS PNCounterReplicas

CONSTANTS Key, Tag, MaxCalls

VARIABLES subject, map, mapSent, used, set, setDone, setSent

Maps == INSTANCE ORMapReplicas WITH sent <- mapSent

Sets == INSTANCE ORSetReplicas WITH
          Element <- Key, done <- setDone, sent <- setSent

maps == <<map, mapSent, used>>
sets == <<set, setDone, setSent>>

ReplicasInit ==
  /\ subject \in {"maps", "counters", "sets"}
  /\ Maps!Init
  /\ Init
  /\ Sets!Init

ReplicasNext ==
  /\ UNCHANGED subject
  /\ \/ subject = "maps" /\ Maps!Next /\ UNCHANGED <<vars, sets>>
     \/ subject = "counters" /\ Next /\ UNCHANGED <<maps, sets>>
     \/ subject = "sets" /\ Sets!Next /\ UNCHANGED <<maps, vars>>

ReplicasSpec ==
  ReplicasInit /\ [][ReplicasNext]_<<subject, maps, vars, sets>>

\* Type correctness of the three.
ReplicasTypeOK == Maps!TypeOK /\ TypeOK /\ Sets!TypeOK

\* The version of a key leaves a replica of a map only with the key or by a
\* Remove of its tag there: see ORMapReplicas.
VersionsSurvive == Maps!VersionsSurvive

\* A set shows what the calls that reached it make it show: see
\* ORSetReplicas.
OnlyCallsCount == Sets!OnlyCallsCount
=============================================================================
