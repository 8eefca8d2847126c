------------------------------ MODULE EnrolProofs ------------------------------
(***************************************************************************)
(* Proofs about enrolment, for any number of services, machines and        *)
(* faults. Every step of module Enrol is a step of Pairing or leaves its   *)
(* state alone, so that what PairingProofs shows of the relay holds of the *)
(* composition; on top of it, what a machine saves is a credential the     *)
(* relay knows.                                                            *)
(***************************************************************************)
EXTENDS Enrol, PairingProofs, FiniteSetTheorems

-----------------------------------------------------------------------------
\* The composition refines Pairing.

CodesOK ==
    /\ svcCode \in [Svcs -> Codes \cup {NoCode}]
    /\ cfgCode \in Codes \cup {NoCode}

LEMMA CodesStep == CodesOK /\ [EnrolNext]_enrolVars => CodesOK'
<1> SUFFICES ASSUME CodesOK, [EnrolNext]_enrolVars PROVE CodesOK'
  OBVIOUS
<1> USE DEF CodesOK
<1>1. CASE UNCHANGED enrolVars BY <1>1 DEF enrolVars, svcVars
<1>2. CASE UNCHANGED <<svcCode, cfgCode>> BY <1>2
<1>3. ASSUME NEW code \in Codes \cup {NoCode}, StartBridge(code) PROVE CodesOK'
  BY <1>3 DEF StartBridge
<1>4. ASSUME NEW s \in Svcs, Hello(s) PROVE CodesOK'
  BY <1>4 DEF Hello, CodeToSend
<1>5. ASSUME NEW s \in Svcs, Ended(s), cfgCode' = cfgCode PROVE CodesOK'
  BY <1>5 DEF Ended
<1>6. CASE StopBridge BY <1>6 DEF StopBridge
<1>7. CASE PairNotSaved
  <2>1. CASE asker \in Svcs /\ Ended(asker) BY <1>7, <2>1, <1>5 DEF PairNotSaved
  <2>2. CASE Ended(asker) BY <1>7, <2>2 DEF PairNotSaved, Ended
  <2> QED BY <1>7, <2>2, <1>2 DEF PairNotSaved
<1> QED
  BY <1>1, <1>2, <1>3, <1>4, <1>5, <1>6, <1>7
  DEF EnrolNext, SaveOpen, SaveWrite, SaveFails, Lost, Break, HelloPair, OtherPair,
      HelloAuthorized, HelloRefused, PairSaved, StopRelay, PairingAlone, svcVars, Terminate

LEMMA EnrolStep == CodesOK /\ EnrolNext => [PairingNext]_vars
<1> SUFFICES ASSUME CodesOK, EnrolNext PROVE [PairingNext]_vars
  OBVIOUS
<1>1. ASSUME NEW s \in Svcs, NEW id \in Ids, NEW cred \in Creds, HelloPair(s, id, cred)
      PROVE PairingNext
  <2>1. Pair(svcCode[s], id, cred) BY <1>1 DEF HelloPair
  <2>2. svcCode[s] \in Codes BY <2>1 DEF Pair, CodesOK
  <2> QED BY <2>1, <2>2 DEF PairingNext
<1>2. ASSUME NEW code \in Codes, NEW id \in Ids, NEW cred \in Creds, OtherPair(code, id, cred)
      PROVE PairingNext
  BY <1>2 DEF OtherPair, PairingNext
<1>3. CASE PairSaved \/ PairNotSaved \/ StopRelay
  BY <1>3 DEF PairSaved, PairNotSaved, StopRelay, PairingNext
<1>4. CASE PairingAlone BY <1>4 DEF PairingAlone, PairingNext
<1>5. CASE UNCHANGED vars BY <1>5
<1> QED
  BY <1>1, <1>2, <1>3, <1>4, <1>5
  DEF EnrolNext, StartBridge, Hello, SaveOpen, SaveWrite, SaveFails, Lost, StopBridge, Break,
      HelloAuthorized, HelloRefused, Terminate

\* By the way Enrol is built on Pairing, what was proved there applies.
LEMMA EnrolRefinesPairing == EnrolSpec => PairingSpec
<1>1. EnrolInit => CodesOK /\ PairingInit BY DEF EnrolInit, CodesOK
<1>2. CodesOK /\ [EnrolNext]_enrolVars => [PairingNext]_vars
  BY EnrolStep DEF enrolVars, vars, fileVars, relayVars, cliVars
<1> QED BY <1>1, <1>2, CodesStep, PTL DEF EnrolSpec, PairingSpec

\* A one-time code stays one-time when several services present it, and present
\* it again after crashes and lost answers.
THEOREM EnrolCodeUsedOnce == Regular /\ EnrolSpec => []CodeUsedOnce
BY EnrolRefinesPairing, CodeUsedOnceCorrect, PTL

\* Nothing a machine does revokes the credential of another or its own.
THEOREM EnrolPairedStaysPaired == Regular /\ EnrolSpec => []PairedStaysPaired
BY EnrolRefinesPairing, PairedStaysPairedCorrect, PTL

-----------------------------------------------------------------------------
\* Every credential in the state file was returned by a pairing.
KnownInv ==
    \A id \in Ids : DiskMachines[id] # NoCred => \E r \in issued : r.cred = DiskMachines[id]

EnrolInv == IInv /\ SvcTypeOK /\ KnownInv /\ SavedIsPaired

LEMMA KnownStep == IInv /\ KnownInv /\ [PairingNext]_vars => KnownInv'
<1> SUFFICES ASSUME IInv, KnownInv, [PairingNext]_vars PROVE KnownInv'
  OBVIOUS
<1> USE PairingAssumption, FileAssumption DEF KnownInv
<1>1. CASE UNCHANGED disk /\ issued \subseteq issued'
  BY <1>1 DEF DiskMachines
<1>2. CASE PersistRename
  <2>1. /\ req \in Requests /\ disk' = mem /\ disk' \notin {Absent, Torn} /\ issued' = issued \cup {req}
        /\ mem.machines = [DiskMachines EXCEPT ![req.id] = req.cred]
    BY <1>2 DEF PersistRename, RelayAt, RenameTmp, IInv, WriterInv, MachineInv, TypeOK
  <2>2. DiskMachines' = [DiskMachines EXCEPT ![req.id] = req.cred] BY <2>1 DEF DiskMachines
  <2>3. DOMAIN DiskMachines = Ids BY DEF DiskMachines, IInv, TypeOK, Files, States, Blank
  <2> QED BY <2>1, <2>2, <2>3
<1>3. ASSUME NEW c \in Cli, CliRename(c) PROVE KnownInv'
  <2>1. /\ disk' = cliState[c] /\ disk' \notin {Absent, Torn} /\ issued' = issued
        /\ cliState[c].machines = DiskMachines
    BY <1>3 DEF CliRename, CliAt, RenameTmp, relayVars, IInv, WriterInv, MachineInv, TypeOK, Active
  <2>2. DiskMachines' = DiskMachines BY <2>1 DEF DiskMachines
  <2> QED BY <2>1, <2>2
<1>4. CASE Start \/ Stop \/ PersistFails \/ PersistOpen
  BY <1>1, <1>4 DEF Start, Stop, PersistFails, PersistOpen, OpenTmp, CloseFd, fileVars
<1>5. CASE PersistFill
  <2>1. UNCHANGED <<disk, issued>>
    BY <1>5 DEF PersistFill, Fill, RelayAt, IInv, WriterInv
  <2> QED BY <1>1, <2>1
<1>6. ASSUME NEW code \in Codes, NEW id \in Ids, NEW cred \in Creds, Pair(code, id, cred)
      PROVE KnownInv'
  BY <1>1, <1>6 DEF Pair, fileVars
<1>7. ASSUME NEW c \in Cli, CliRead(c) \/ CliOpen(c) \/ CliFails(c) PROVE KnownInv'
  BY <1>1, <1>7 DEF CliRead, CliOpen, CliFails, OpenTmp, CloseFd, fileVars, relayVars
<1>8. ASSUME NEW c \in Cli, CliFill(c) PROVE KnownInv'
  <2>1. UNCHANGED <<disk, issued>>
    BY <1>8 DEF CliFill, Fill, CliAt, relayVars, IInv, WriterInv
  <2> QED BY <1>1, <2>1
<1>9. CASE UNCHANGED vars BY <1>1, <1>9 DEF vars, fileVars, relayVars
<1> QED BY <1>2, <1>3, <1>4, <1>5, <1>6, <1>7, <1>8, <1>9 DEF PairingNext

\* Types, by what the steps do to the variables of a service.
LEMMA EnrolTypeStep == EnrolInv /\ [EnrolNext]_enrolVars => SvcTypeOK'
<1> SUFFICES ASSUME EnrolInv, [EnrolNext]_enrolVars PROVE SvcTypeOK'
  OBVIOUS
<1> USE EnrolAssumption DEF EnrolInv, SvcTypeOK, Fault, SvcAt, procVars
<1>0. asker # NoSvc => asker \in Svcs OBVIOUS
<1>1. ASSUME NEW code \in Codes \cup {NoCode}, StartBridge(code) PROVE SvcTypeOK'
  BY <1>1 DEF StartBridge
<1>2. ASSUME NEW s \in Svcs, Hello(s) PROVE SvcTypeOK'
  BY <1>2 DEF Hello, CodeToSend
<1>3. ASSUME NEW s \in Svcs, SaveOpen(s) \/ SaveWrite(s) PROVE SvcTypeOK'
  <2>1. CASE SaveOpen(s) BY <2>1 DEF SaveOpen
  <2>2. CASE SaveWrite(s)
    <3>1. active' \in Nat BY <2>2 DEF SaveWrite
    <3> QED BY <2>2, <3>1 DEF SaveWrite
  <2> QED BY <1>3, <2>1, <2>2
<1>4. ASSUME NEW s \in Svcs, SaveFails(s) \/ Lost(s) \/ HelloRefused(s) PROVE SvcTypeOK'
  BY <1>4 DEF SaveFails, Lost, HelloRefused, Ended, ActiveAfter
<1>5. CASE StopBridge \/ Terminate
  <2>1. CASE StopBridge
    <3>1. credFile' \in {credFile, Torn} BY <2>1 DEF StopBridge
    <3>2. /\ svcPc' = [s \in Svcs |-> "off"]
          /\ svcCode' = [s \in Svcs |-> NoCode] /\ svcCred' = [s \in Svcs |-> NoCred]
      BY <2>1 DEF StopBridge
    <3>3. /\ conns' = {} /\ asker' = NoSvc /\ active' = 0 /\ stopping' = FALSE
          /\ UNCHANGED <<cfgCode, saved>>
      BY <2>1 DEF StopBridge
    <3>4. faults' \in 0..MaxFaults BY <2>1 DEF StopBridge
    <3> QED BY <3>1, <3>2, <3>3, <3>4
  <2>2. CASE Terminate BY <2>2 DEF Terminate
  <2> QED BY <1>5, <2>1, <2>2
<1>6. ASSUME NEW s \in Svcs, Break(s) PROVE SvcTypeOK'
  BY <1>6 DEF Break
<1>7. ASSUME NEW s \in Svcs, NEW id \in Ids, NEW cred \in Creds, HelloPair(s, id, cred)
      PROVE SvcTypeOK'
  BY <1>7 DEF HelloPair, Answer
<1>8. ASSUME NEW code \in Codes, NEW id \in Ids, NEW cred \in Creds, OtherPair(code, id, cred)
      PROVE SvcTypeOK'
  BY <1>8 DEF OtherPair
<1>9. ASSUME NEW s \in Svcs, HelloAuthorized(s) PROVE SvcTypeOK'
  BY <1>9 DEF HelloAuthorized, Answer
<1>10. CASE PairSaved
  <2>1. req.cred \in Creds
    BY <1>10 DEF PairSaved, PersistRename, RelayAt, IInv, MachineInv, Requests
  <2> QED BY <1>0, <1>10, <2>1 DEF PairSaved, Answer
<1>11. CASE PairNotSaved BY <1>0, <1>11 DEF PairNotSaved, Ended, ActiveAfter
<1>12. CASE StopRelay BY <1>12 DEF StopRelay
<1>13. CASE PairingAlone BY <1>13 DEF PairingAlone, svcVars
<1>14. CASE UNCHANGED enrolVars BY <1>14 DEF enrolVars, svcVars
<1> QED
  BY <1>1, <1>2, <1>3, <1>4, <1>5, <1>6, <1>7, <1>8, <1>9, <1>10, <1>11, <1>12, <1>13, <1>14
  DEF EnrolNext

\* A service gets a credential from Pair, which has just returned it, or from
\* Authorize, which found it in the memory of the relay.
LEMMA SavedStep == EnrolInv /\ [EnrolNext]_enrolVars => SavedIsPaired'
<1> SUFFICES ASSUME EnrolInv, [EnrolNext]_enrolVars PROVE SavedIsPaired'
  OBVIOUS
<1> USE EnrolAssumption, PairingAssumption
        DEF EnrolInv, SvcTypeOK, SavedIsPaired, SvcAt
<1>1. ASSUME issued \subseteq issued', credFile' \in {credFile, NoCred, Torn},
             \A s \in Svcs : svcPc'[s] \in {"answered", "saving", "online"} =>
                 /\ svcPc[s] \in {"answered", "saving", "online"}
                 /\ svcCred'[s] = svcCred[s]
      PROVE SavedIsPaired'
  BY <1>1
<1>2. ASSUME NEW s \in Svcs, SaveWrite(s) PROVE SavedIsPaired'
  BY <1>2 DEF SaveWrite, vars, relayVars
<1>3. ASSUME NEW s \in Svcs, HelloAuthorized(s) PROVE SavedIsPaired'
  <2>1. PICK id \in Ids : mem.machines[id] = svcCred[s]
    BY <1>3 DEF HelloAuthorized, Authorized
  <2>2. PICK r \in issued : r.cred = svcCred[s]
    BY <1>3, <2>1 DEF HelloAuthorized, Authorized, HelloAt, IInv, MachineInv, KnownInv
  <2> QED BY <1>3, <2>2 DEF HelloAuthorized, Answer, vars, relayVars
<1>4. CASE PairSaved
  <2>1. /\ issued' = issued \cup {req} /\ credFile' = credFile
        /\ asker = NoSvc => UNCHANGED <<svcPc, svcCred>>
        /\ asker # NoSvc => Answer(asker, req.cred)
    BY <1>4 DEF PairSaved, PersistRename
  <2>2. CASE asker = NoSvc BY <1>1, <2>1, <2>2
  <2>3. CASE asker # NoSvc
    <3> SUFFICES ASSUME NEW s \in Svcs, svcPc'[s] \in {"answered", "saving", "online"}
                 PROVE \E r \in issued' : r.cred = svcCred'[s]
      BY <2>1
    <3>1. CASE s = asker BY <2>1, <2>3, <3>1 DEF Answer
    <3>2. CASE s # asker
      <4>1. svcPc'[s] = svcPc[s] /\ svcCred'[s] = svcCred[s] BY <2>1, <2>3, <3>2 DEF Answer
      <4> QED BY <2>1, <4>1
    <3> QED BY <3>1, <3>2
  <2> QED BY <2>2, <2>3
<1>5. ASSUME NEW s \in Svcs, NEW id \in Ids, NEW cred \in Creds, HelloPair(s, id, cred)
      PROVE SavedIsPaired'
  BY <1>1, <1>5 DEF HelloPair, Pair, IInv, Regular
<1>6. ASSUME NEW code \in Codes \cup {NoCode}, StartBridge(code) PROVE SavedIsPaired'
  BY <1>1, <1>6 DEF StartBridge, vars, relayVars
<1>7. ASSUME NEW s \in Svcs, Hello(s) \/ SaveOpen(s) \/ Break(s) PROVE SavedIsPaired'
  BY <1>1, <1>7 DEF Hello, SaveOpen, Break, vars, relayVars
<1>8. ASSUME NEW s \in Svcs, SaveFails(s) \/ Lost(s) \/ HelloRefused(s) PROVE SavedIsPaired'
  BY <1>1, <1>8 DEF SaveFails, Lost, HelloRefused, Ended, vars, relayVars
<1>9. CASE StopBridge \/ Terminate BY <1>1, <1>9 DEF StopBridge, Terminate, vars, relayVars
<1>10. ASSUME NEW code \in Codes, NEW id \in Ids, NEW cred \in Creds, OtherPair(code, id, cred)
       PROVE SavedIsPaired'
  BY <1>1, <1>10 DEF OtherPair, Pair
<1>11. CASE PairNotSaved
  <2>1. issued' = issued BY <1>11 DEF PairNotSaved, PersistFails
  <2> QED BY <1>1, <1>11, <2>1 DEF PairNotSaved, Ended
<1>12. CASE StopRelay BY <1>1, <1>12 DEF StopRelay, Stop
<1>13. CASE PairingAlone
  <2>1. issued' = issued
    BY <1>13 DEF PairingAlone, Start, PersistOpen, PersistFill, CliRead, CliOpen, CliFill,
          CliRename, CliFails, relayVars
  <2> QED BY <1>1, <1>13, <2>1 DEF PairingAlone, svcVars
<1>14. CASE UNCHANGED enrolVars
  BY <1>1, <1>14 DEF enrolVars, svcVars, vars, relayVars
<1> QED
  BY <1>2, <1>3, <1>4, <1>5, <1>6, <1>7, <1>8, <1>9, <1>10, <1>11, <1>12, <1>13, <1>14
  DEF EnrolNext

LEMMA EnrolInvariant ==
  Regular /\ EnrolSpec => [](SvcTypeOK /\ KnownInv /\ SavedIsPaired)
<1>1. Regular /\ EnrolInit => SvcTypeOK /\ KnownInv /\ SavedIsPaired
  <2> SUFFICES ASSUME EnrolInit PROVE SvcTypeOK /\ KnownInv /\ SavedIsPaired
    OBVIOUS
  <2>1. SvcTypeOK
    <3>1. faults \in 0..MaxFaults BY EnrolAssumption DEF EnrolInit
    <3>2. saved \in BOOLEAN BY DEF EnrolInit
    <3> QED BY <3>1, <3>2 DEF EnrolInit, SvcTypeOK
  <2>2. KnownInv BY DEF EnrolInit, PairingInit, KnownInv, DiskMachines, Blank
  <2>3. SavedIsPaired BY PairingAssumption DEF EnrolInit, SavedIsPaired
  <2> QED BY <2>1, <2>2, <2>3
<1>2. IInv /\ SvcTypeOK /\ KnownInv /\ SavedIsPaired /\ [EnrolNext]_enrolVars
        => (SvcTypeOK /\ KnownInv /\ SavedIsPaired)'
  <2> SUFFICES ASSUME IInv, SvcTypeOK, KnownInv, SavedIsPaired, [EnrolNext]_enrolVars
               PROVE (SvcTypeOK /\ KnownInv /\ SavedIsPaired)'
    OBVIOUS
  <2>1. [PairingNext]_vars
    BY EnrolStep DEF SvcTypeOK, CodesOK, enrolVars
  <2> QED BY <2>1, EnrolTypeStep, KnownStep, SavedStep DEF EnrolInv
<1> QED BY <1>1, <1>2, IInvInvariant, EnrolRefinesPairing, PTL DEF EnrolSpec

\* The types of the relay and the services, for any number of them and any faults.
THEOREM EnrolTypeCorrect == Regular /\ EnrolSpec => []EnrolTypeOK
BY EnrolInvariant, EnrolRefinesPairing, PairingTypeCorrect, PTL DEF EnrolTypeOK

\* What is left in the credential file, and what a service is online with, is a
\* credential the relay returned.
THEOREM SavedIsPairedCorrect == Regular /\ EnrolSpec => []SavedIsPaired
BY EnrolInvariant, PTL

-----------------------------------------------------------------------------
\* What a service presents was in its file when it dialled, and the file may have
\* changed since: so it is stated of the service as well.
PresentedInv ==
    \A s \in Svcs : svcPc[s] = "asked" /\ svcCred[s] \in Creds =>
                       \E r \in issued : r.cred = svcCred[s]

LEMMA IssuedGrows == [PairingNext]_vars => issued \subseteq issued'
BY DEF PairingNext, Start, Pair, PersistOpen, PersistFill, PersistRename, PersistFails, Stop,
       CliRead, CliOpen, CliFill, CliRename, CliFails, vars, relayVars

\* A service that asks has asked before, or has just read the file.
LEMMA AskedStep ==
    ASSUME SvcTypeOK, [EnrolNext]_enrolVars, NEW s \in Svcs, svcPc'[s] = "asked"
    PROVE  svcCred'[s] = credFile \/ (svcPc[s] = "asked" /\ svcCred'[s] = svcCred[s])
<1> DEFINE Goal == svcCred'[s] = credFile \/ (svcPc[s] = "asked" /\ svcCred'[s] = svcCred[s])
<1> USE DEF SvcTypeOK, SvcAt
<1>1. CASE UNCHANGED <<svcPc, svcCred>> BY <1>1
<1>2. ASSUME NEW code \in Codes \cup {NoCode}, StartBridge(code) PROVE Goal
  BY <1>2 DEF StartBridge
<1>3. ASSUME NEW x \in Svcs, Hello(x) PROVE Goal BY <1>3 DEF Hello
<1>4. ASSUME NEW x \in Svcs, SaveOpen(x) \/ SaveWrite(x) PROVE Goal
  BY <1>4 DEF SaveOpen, SaveWrite
<1>5. ASSUME NEW x \in Svcs, Ended(x) PROVE Goal BY <1>5 DEF Ended
<1>6. ASSUME NEW x \in Svcs, NEW cred, Answer(x, cred) PROVE Goal BY <1>6 DEF Answer
<1>7. CASE StopBridge \/ Terminate BY <1>7 DEF StopBridge, Terminate
<1>8. CASE PairSaved \/ PairNotSaved
  BY <1>8, <1>1, <1>5, <1>6 DEF PairSaved, PairNotSaved
<1>9. ASSUME NEW x \in Svcs, NEW id \in Ids, NEW cred \in Creds, HelloPair(x, id, cred)
      PROVE Goal
  BY <1>9, <1>1, <1>6 DEF HelloPair
<1> QED
  BY <1>1, <1>2, <1>3, <1>4, <1>5, <1>6, <1>7, <1>8, <1>9
  DEF EnrolNext, SaveFails, Lost, Break, OtherPair, HelloAuthorized, HelloRefused, StopRelay,
      PairingAlone, svcVars, enrolVars

LEMMA PresentedStep ==
    ASSUME SvcTypeOK, SavedIsPaired, PresentedInv, [PairingNext]_vars, [EnrolNext]_enrolVars
    PROVE  PresentedInv'
<1> SUFFICES ASSUME NEW s \in Svcs, svcPc'[s] = "asked", svcCred'[s] \in Creds
             PROVE \E r \in issued' : r.cred = svcCred'[s]
  BY DEF PresentedInv
<1>1. \E r \in issued : r.cred = svcCred'[s]
  BY AskedStep DEF SavedIsPaired, PresentedInv
<1> QED BY <1>1, IssuedGrows

\* Whoever presents a saved credential is let in: it was issued, and the relay that
\* reads the hello has every machine it ever issued a credential to in its memory.
THEOREM SavedIsAcceptedCorrect == Regular /\ EnrolSpec => []SavedIsAccepted
<1>1. EnrolInit => PresentedInv BY DEF EnrolInit, PresentedInv
<1>2. SvcTypeOK /\ SavedIsPaired /\ PresentedInv /\ [EnrolNext]_enrolVars => PresentedInv'
  <2> SUFFICES ASSUME SvcTypeOK, SavedIsPaired, PresentedInv, [EnrolNext]_enrolVars
               PROVE PresentedInv'
    OBVIOUS
  <2>1. [PairingNext]_vars BY EnrolStep DEF SvcTypeOK, CodesOK, enrolVars
  <2> QED BY <2>1, PresentedStep
<1>3. TypeOK /\ PairedStaysPaired /\ PresentedInv => SavedIsAccepted
  <2> SUFFICES ASSUME TypeOK, PairedStaysPaired, PresentedInv,
                      NEW s \in Svcs, HelloAt(s), svcCred[s] \in Creds
               PROVE Authorized(svcCred[s])
    BY DEF SavedIsAccepted
  <2>1. PICK r \in issued : r.cred = svcCred[s] BY DEF PresentedInv, HelloAt
  <2>2. r.id \in Ids BY DEF TypeOK, Requests
  <2>3. mem.machines[r.id] = r.cred BY DEF PairedStaysPaired, HelloAt
  <2> QED BY <2>1, <2>2, <2>3 DEF Authorized
<1> QED
  BY <1>1, <1>2, <1>3, EnrolInvariant, EnrolRefinesPairing, PairingTypeCorrect,
     EnrolPairedStaysPaired, PTL DEF EnrolSpec

-----------------------------------------------------------------------------
\* The counter of the status page counts the services that are online.
OnlineSvcs == {s \in Svcs : svcPc[s] = "online"}
StatusInv == active = Cardinality(OnlineSvcs)

LEMMA OnlineFinite == IsFiniteSet(OnlineSvcs)
<1>1. OnlineSvcs \in SUBSET Svcs BY DEF OnlineSvcs
<1> QED BY <1>1, EnrolAssumption, FS_Subset

LEMMA EndedStatus ==
  ASSUME SvcTypeOK, StatusInv, NEW s \in Svcs, Ended(s)
  PROVE  StatusInv'
<1>1. OnlineSvcs' = OnlineSvcs \ {s} BY DEF OnlineSvcs, Ended, SvcTypeOK
<1>2. s \in OnlineSvcs <=> svcPc[s] = "online" BY DEF OnlineSvcs
<1>3. Cardinality(OnlineSvcs \ {s}) =
        IF s \in OnlineSvcs THEN Cardinality(OnlineSvcs) - 1 ELSE Cardinality(OnlineSvcs)
  BY OnlineFinite, FS_RemoveElement
<1>4. s \in OnlineSvcs => Cardinality(OnlineSvcs) # 0 BY OnlineFinite, FS_EmptySet
<1>5. active' = IF s \in OnlineSvcs THEN active - 1 ELSE active
  BY <1>2, <1>4 DEF Ended, ActiveAfter, StatusInv, SvcTypeOK
<1> QED BY <1>1, <1>3, <1>5 DEF StatusInv

\* A service that Pair works for waits for its answer.
AskerInv ==
    asker # NoSvc => /\ svcPc[asker] = "asked" /\ asker \in conns
                     /\ relayPc \notin {"down", "ready"}

LEMMA AskerStep == SvcTypeOK /\ AskerInv /\ [EnrolNext]_enrolVars => AskerInv'
<1> SUFFICES ASSUME SvcTypeOK, AskerInv, [EnrolNext]_enrolVars PROVE AskerInv'
  OBVIOUS
<1> USE EnrolAssumption DEF SvcTypeOK, AskerInv, SvcAt
<1>0. asker # NoSvc => asker \in Svcs OBVIOUS
<1>1. CASE asker' = NoSvc BY <1>1
<1>2. ASSUME UNCHANGED <<asker, relayPc>>,
             asker # NoSvc => svcPc'[asker] = svcPc[asker] /\ (asker \in conns => asker \in conns')
      PROVE AskerInv'
  BY <1>2
<1>3. ASSUME NEW s \in Svcs, NEW id \in Ids, NEW cred \in Creds, HelloPair(s, id, cred)
      PROVE AskerInv'
  <2>1. CASE HasState
    BY <1>3, <2>1 DEF HelloPair, HelloAt, Pair, RelayAt
  <2>2. CASE ~HasState
    <3>1. asker' = asker /\ asker = NoSvc BY <1>3, <2>2 DEF HelloPair, HelloAt
    <3> QED BY <1>1, <3>1
  <2> QED BY <2>1, <2>2
<1>4. ASSUME NEW code \in Codes \cup {NoCode}, StartBridge(code) PROVE AskerInv'
  <2>1. asker' = asker /\ asker = NoSvc BY <1>0, <1>4 DEF StartBridge
  <2> QED BY <1>1, <2>1
<1>5. ASSUME NEW s \in Svcs, Hello(s) \/ SaveOpen(s) \/ SaveWrite(s) PROVE AskerInv'
  BY <1>0, <1>2, <1>5 DEF Hello, SaveOpen, SaveWrite, vars, relayVars
<1>6. ASSUME NEW s \in Svcs, SaveFails(s) \/ Lost(s) PROVE AskerInv'
  BY <1>0, <1>2, <1>6 DEF SaveFails, Lost, Ended, vars, relayVars
<1>7. ASSUME NEW s \in Svcs, HelloAuthorized(s) \/ HelloRefused(s) PROVE AskerInv'
  <2>1. asker' = asker /\ asker = NoSvc BY <1>7 DEF HelloAuthorized, HelloRefused, HelloAt
  <2> QED BY <1>1, <2>1
<1>8. CASE Terminate BY <1>0, <1>2, <1>8 DEF Terminate, vars, relayVars
<1>9. ASSUME NEW s \in Svcs, Break(s) PROVE AskerInv'
  BY <1>0, <1>1, <1>2, <1>9 DEF Break, vars, relayVars
<1>10. CASE PairingAlone
  <2>1. UNCHANGED <<svcPc, conns, asker>> BY <1>10 DEF PairingAlone, svcVars
  <2>2. CASE relayPc' = relayPc BY <1>2, <2>1, <2>2
  <2>3. CASE Start BY <2>1, <2>3 DEF Start, RelayAt
  <2>4. CASE PersistOpen \/ PersistFill BY <2>1, <2>4 DEF PersistOpen, PersistFill, RelayAt
  <2> QED BY <1>10, <2>2, <2>3, <2>4
          DEF PairingAlone, CliRead, CliOpen, CliFill, CliRename, CliFails, relayVars
<1>11. CASE UNCHANGED enrolVars
  BY <1>2, <1>11 DEF enrolVars, svcVars, vars, relayVars
<1> QED
  BY <1>1, <1>3, <1>4, <1>5, <1>6, <1>7, <1>8, <1>9, <1>10, <1>11
  DEF EnrolNext, StopBridge, OtherPair, PairSaved, PairNotSaved, StopRelay

LEMMA StatusStep == SvcTypeOK /\ AskerInv /\ StatusInv /\ [EnrolNext]_enrolVars => StatusInv'
<1> SUFFICES ASSUME SvcTypeOK, AskerInv, StatusInv, [EnrolNext]_enrolVars PROVE StatusInv'
  OBVIOUS
<1> USE DEF SvcTypeOK, SvcAt, procVars
<1>1. ASSUME OnlineSvcs' = OnlineSvcs, active' = active PROVE StatusInv'
  BY <1>1 DEF StatusInv
<1>2. ASSUME active' = 0, \A s \in Svcs : svcPc'[s] # "online" PROVE StatusInv'
  <2>1. OnlineSvcs' = {} BY <1>2 DEF OnlineSvcs
  <2> QED BY <1>2, <2>1, FS_EmptySet DEF StatusInv
<1>3. ASSUME NEW s \in Svcs, SaveWrite(s) PROVE StatusInv'
  <2>1. OnlineSvcs' = OnlineSvcs \cup {s} BY <1>3 DEF SaveWrite, OnlineSvcs
  <2>2. s \notin OnlineSvcs BY <1>3 DEF SaveWrite, OnlineSvcs
  <2>3. active' = active + 1 BY <1>3 DEF SaveWrite
  <2> QED BY <2>1, <2>2, <2>3, OnlineFinite, FS_AddElement DEF StatusInv
<1>4. ASSUME NEW s \in Svcs, SaveFails(s) \/ Lost(s) \/ HelloRefused(s) PROVE StatusInv'
  <2>1. Ended(s) BY <1>4 DEF SaveFails, Lost, HelloRefused
  <2> QED BY <2>1, EndedStatus
<1>5. CASE PairNotSaved
  <2>1. CASE asker # NoSvc
    <3>1. asker \in Svcs /\ Ended(asker) BY <1>5, <2>1 DEF PairNotSaved
    <3> QED BY <3>1, EndedStatus
  <2>2. CASE asker = NoSvc BY <1>1, <1>5, <2>2 DEF PairNotSaved, OnlineSvcs
  <2> QED BY <2>1, <2>2
<1>6. ASSUME NEW code \in Codes \cup {NoCode}, StartBridge(code) PROVE StatusInv'
  BY <1>2, <1>6 DEF StartBridge
<1>7. CASE StopBridge BY <1>2, <1>7 DEF StopBridge
<1>8. CASE Terminate
  <2>1. OnlineSvcs' = OnlineSvcs BY <1>8 DEF Terminate, OnlineSvcs
  <2> QED BY <1>1, <1>8, <2>1 DEF Terminate
<1>9. ASSUME NEW s \in Svcs, Hello(s) \/ SaveOpen(s) PROVE StatusInv'
  <2>1. OnlineSvcs' = OnlineSvcs BY <1>9 DEF Hello, SaveOpen, OnlineSvcs
  <2> QED BY <1>1, <1>9, <2>1 DEF Hello, SaveOpen
\* An answer comes to a service that has asked.
<1>10. ASSUME NEW s \in Svcs, HelloAuthorized(s) PROVE StatusInv'
  <2>1. OnlineSvcs' = OnlineSvcs BY <1>10 DEF HelloAuthorized, HelloAt, Answer, OnlineSvcs
  <2> QED BY <1>1, <1>10, <2>1 DEF HelloAuthorized
<1>11. ASSUME NEW s \in Svcs, NEW id \in Ids, NEW cred \in Creds, HelloPair(s, id, cred)
       PROVE StatusInv'
  <2>1. OnlineSvcs' = OnlineSvcs BY <1>11 DEF HelloPair, HelloAt, Answer, OnlineSvcs
  <2> QED BY <1>1, <1>11, <2>1 DEF HelloPair
<1>12. CASE PairSaved
  <2>1. OnlineSvcs' = OnlineSvcs BY <1>12 DEF PairSaved, AskerInv, Answer, OnlineSvcs
  <2> QED BY <1>1, <1>12, <2>1 DEF PairSaved
<1>13. CASE UNCHANGED <<svcPc, active>> BY <1>1, <1>13 DEF OnlineSvcs
<1> QED
  BY <1>3, <1>4, <1>5, <1>6, <1>7, <1>8, <1>9, <1>10, <1>11, <1>12, <1>13
  DEF EnrolNext, Break, OtherPair, StopRelay, PairingAlone, svcVars, enrolVars

\* The status page says "connected" exactly while a service is online, for any
\* number of services that share its counter.
THEOREM StatusTruthfulCorrect == Regular /\ EnrolSpec => []StatusTruthful
<1>1. EnrolInit => AskerInv /\ StatusInv
  <2> SUFFICES ASSUME EnrolInit PROVE AskerInv /\ StatusInv
    OBVIOUS
  <2>1. OnlineSvcs = {} BY DEF EnrolInit, OnlineSvcs
  <2> QED BY <2>1, FS_EmptySet DEF EnrolInit, AskerInv, StatusInv
<1>2. SvcTypeOK /\ AskerInv /\ StatusInv /\ [EnrolNext]_enrolVars => (AskerInv /\ StatusInv)'
  BY AskerStep, StatusStep
<1>3. StatusInv /\ SvcTypeOK => StatusTruthful
  <2> SUFFICES ASSUME StatusInv, SvcTypeOK PROVE StatusTruthful
    OBVIOUS
  <2>1. active > 0 <=> OnlineSvcs # {}
    BY OnlineFinite, FS_EmptySet DEF StatusInv, SvcTypeOK
  <2> QED BY <2>1 DEF StatusTruthful, OnlineSvcs
<1> QED BY <1>1, <1>2, <1>3, EnrolInvariant, PTL DEF EnrolSpec
=============================================================================
