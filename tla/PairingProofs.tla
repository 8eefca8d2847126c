----------------------------- MODULE PairingProofs -----------------------------
(***************************************************************************)
(* Proofs about one-time codes and paired machines, for any number of      *)
(* machines, credentials and runs of the pair command, when the relay has  *)
(* a state file and the command is run while the relay is stopped.         *)
(* Crashes and failing system calls may happen at any step.  Both          *)
(* conditions are needed: without a file a restart arms the configured     *)
(* code again, and a command that runs beside the relay loses machines     *)
(* (run pairing_lost_machine).                                             *)
(***************************************************************************)
EXTENDS Pairing, TLAPS

Regular == HasState /\ ~PairWhileUp

Active(c) == cliPc[c] \in {"read", "opened", "filled"}

\* At most one process is between its read of the state and its rename, and the
\* temporary file holds what that process has written.
WriterInv ==
    /\ CliActive => relayPc = "down"
    /\ \A c, d \in Cli : Active(c) /\ Active(d) => c = d
    /\ fd[Relay] = IF relayPc = "opened" THEN "tmp" ELSE "none"
    /\ \A c \in Cli : fd[c] = IF cliPc[c] = "opened" THEN "tmp" ELSE "none"
    /\ relayPc = "opened" => tmp = Torn
    /\ relayPc = "filled" => tmp = mem
    /\ \A c \in Cli : cliPc[c] = "opened" => tmp = Torn
    /\ \A c \in Cli : cliPc[c] = "filled" => tmp = cliState[c]

Spent(code) == \E r \in issued : r.code = code

\* The state file, the memory of the relay and what a command is about to write
\* agree on the machines.
MachineInv ==
    /\ disk # Torn
    /\ relayPc = "ready" => mem.machines = DiskMachines
    /\ relayPc \in {"pairing", "opened", "filled"} =>
          /\ req \in Requests
          /\ DiskMachines[req.id] = NoCred
          /\ mem.machines = [DiskMachines EXCEPT ![req.id] = req.cred]
    /\ \A c \in Cli : Active(c) => cliState[c].machines = DiskMachines
    /\ \A r \in issued : disk # Absent /\ DiskMachines[r.id] = r.cred

\* A code that yielded a credential is pending nowhere.
CodeInv ==
    /\ relayPc \in {"pairing", "opened", "filled"} =>
          /\ mem.pending = NoCode /\ ~Spent(req.code)
          /\ req.code \in Cli => cliPc[req.code] = "done"
    /\ \A c \in Cli : Active(c) => cliState[c].pending = c
    /\ \A c \in Cli : Spent(c) => cliPc[c] = "done"
    /\ \A code \in Codes : code # NoCode /\ Spent(code) =>
          /\ disk # Absent => disk.pending # code
          /\ relayPc # "down" => mem.pending # code
    /\ \A c \in Cli : disk # Absent /\ disk.pending = c => cliPc[c] = "done"
    /\ \A c \in Cli : mem.pending = c => cliPc[c] = "done"
    /\ ~Spent(NoCode) /\ (req \in Requests => req.code # NoCode)
    /\ CodeUsedOnce

IInv == Regular /\ TypeOK /\ WriterInv /\ MachineInv /\ CodeInv

-----------------------------------------------------------------------------
LEMMA IInvInit == Regular /\ PairingInit => IInv
<1> SUFFICES ASSUME Regular, PairingInit PROVE IInv
  OBVIOUS
<1> USE PairingAssumption, FileAssumption DEF PairingInit
<1>1. TypeOK BY DEF TypeOK, Files, States, Blank, Codes
<1>2. WriterInv BY DEF WriterInv, CliActive, Active, Procs
<1>3. MachineInv BY DEF MachineInv, Active
<1>4. CodeInv BY DEF CodeInv, Active, Spent, CodeUsedOnce, Blank
<1> QED BY <1>1, <1>2, <1>3, <1>4 DEF IInv

\* Each action keeps the invariant.  The relay's actions come first.
LEMMA StartStep == IInv /\ Start => IInv'
<1> SUFFICES ASSUME IInv, Start PROVE IInv'
  OBVIOUS
<1> USE PairingAssumption, FileAssumption DEF IInv, Start, RelayAt, fileVars, cliVars, Regular, Loaded
<1>1. TypeOK' BY DEF TypeOK, Files, States, Blank, Codes
<1>2. WriterInv' BY DEF WriterInv, CliActive, Active
<1>3. MachineInv' BY DEF MachineInv, Active, WriterInv, CliActive, DiskMachines, Blank
<1>4. CodeInv' BY DEF CodeInv, Active, Spent, CodeUsedOnce, Blank, MachineInv, TypeOK
<1> QED BY <1>1, <1>2, <1>3, <1>4

LEMMA PairStep ==
    ASSUME IInv, NEW code \in Codes, NEW id \in Ids, NEW cred \in Creds, Pair(code, id, cred)
    PROVE  IInv'
<1> USE PairingAssumption, FileAssumption DEF IInv, Pair, RelayAt, fileVars, cliVars, Regular, AfterPair
<1>1. TypeOK' BY DEF TypeOK, Files, States, Requests
<1>2. WriterInv' BY DEF WriterInv, CliActive, Active
<1>3. MachineInv' BY DEF MachineInv, Active, WriterInv, CliActive, DiskMachines, TypeOK, States, Requests
<1>4. CodeInv' BY DEF CodeInv, Active, Spent, CodeUsedOnce, TypeOK, States, Requests
<1> QED BY <1>1, <1>2, <1>3, <1>4

LEMMA PersistOpenStep == IInv /\ PersistOpen => IInv'
<1> SUFFICES ASSUME IInv, PersistOpen PROVE IInv'
  OBVIOUS
<1> USE PairingAssumption, FileAssumption DEF IInv, PersistOpen, OpenTmp, RelayAt, cliVars, Regular
<1>1. TypeOK' BY DEF TypeOK, Files, Procs
<1>2. WriterInv' BY DEF WriterInv, CliActive, Active, TypeOK, Procs
<1>3. MachineInv' BY DEF MachineInv, Active, DiskMachines
<1>4. CodeInv' BY DEF CodeInv, Active, Spent, CodeUsedOnce
<1> QED BY <1>1, <1>2, <1>3, <1>4

LEMMA PersistFillStep == IInv /\ PersistFill => IInv'
<1> SUFFICES ASSUME IInv, PersistFill PROVE IInv'
  OBVIOUS
<1> USE PairingAssumption, FileAssumption DEF IInv, PersistFill, RelayAt, cliVars, Regular
<1>0. tmp' = mem /\ disk' = disk /\ fd' = [fd EXCEPT ![Relay] = "none"]
  BY DEF WriterInv, Fill, Written
<1>1. TypeOK' BY <1>0 DEF TypeOK, Files, Procs
<1>2. WriterInv' BY <1>0 DEF WriterInv, CliActive, Active, TypeOK, Procs
<1>3. MachineInv' BY <1>0 DEF MachineInv, Active, DiskMachines
<1>4. CodeInv' BY <1>0 DEF CodeInv, Active, Spent, CodeUsedOnce
<1> QED BY <1>1, <1>2, <1>3, <1>4

\* The rename publishes the pairing and the end of its code in one step.
LEMMA PersistRenameStep == IInv /\ PersistRename => IInv'
<1> SUFFICES ASSUME IInv, PersistRename PROVE IInv'
  OBVIOUS
<1> USE PairingAssumption, FileAssumption DEF IInv, PersistRename, RelayAt, cliVars, Regular
<1>0. /\ disk' = mem /\ tmp' = Absent /\ mem' = mem /\ mem \in States /\ fd' = fd
      /\ relayPc = "filled" /\ relayPc' = "ready" /\ ~CliActive /\ req \in Requests
      /\ cliPc' = cliPc /\ cliState' = cliState /\ issued' = issued \cup {req}
  BY DEF WriterInv, RenameTmp, TypeOK, Procs, MachineInv
<1>1. TypeOK' BY <1>0 DEF TypeOK, Files
<1>2. WriterInv' BY <1>0 DEF WriterInv, CliActive, Active
<1>3. MachineInv'
  <2>1. DiskMachines' = mem.machines BY <1>0 DEF DiskMachines
  <2>2. \A c \in Cli : ~Active(c)' BY <1>0 DEF CliActive, Active
  <2>3. \A r \in issued' : DiskMachines'[r.id] = r.cred
    <3>1. \A r \in issued : r.id \in Ids /\ r.id # req.id /\ mem.machines[r.id] = r.cred
      BY <1>0 DEF MachineInv, TypeOK, Requests, States, DiskMachines, Files, Blank
    <3>2. mem.machines[req.id] = req.cred
      BY <1>0 DEF MachineInv, TypeOK, Requests, States, DiskMachines, Files, Blank
    <3> QED BY <1>0, <2>1, <3>1, <3>2
  <2> QED BY <1>0, <2>1, <2>2, <2>3 DEF MachineInv
<1>4. CodeInv'
  <2>1. mem.pending = NoCode /\ ~Spent(req.code) BY <1>0 DEF CodeInv
  <2>2. \A c \in Cli : Spent(c)' => Spent(c) \/ c = req.code BY <1>0 DEF Spent
  <2>3. \A c \in Cli : cliPc[c] = "done" \/ req.code # c
    BY <1>0 DEF CodeInv
  <2> QED BY <1>0, <2>1, <2>2, <2>3 DEF CodeInv, Spent, CodeUsedOnce, Active, CliActive
<1> QED BY <1>1, <1>2, <1>3, <1>4

LEMMA PersistFailsStep == IInv /\ PersistFails => IInv'
<1> SUFFICES ASSUME IInv, PersistFails PROVE IInv'
  OBVIOUS
<1> USE PairingAssumption, FileAssumption
    DEF IInv, PersistFails, CloseFd, AfterFailure, cliVars, Regular
<1>1. TypeOK' BY DEF TypeOK, Procs, States
<1>2. WriterInv' BY DEF WriterInv, CliActive, Active, TypeOK, Procs
<1>3. MachineInv'
  <2>1. DiskMachines' = DiskMachines BY DEF DiskMachines
  <2>2. DiskMachines \in [Ids -> Creds \cup {NoCred}] BY DEF DiskMachines, TypeOK, Files, States, Blank
  <2>3. mem'.machines = DiskMachines
    BY <2>2 DEF MachineInv, TypeOK, States, Requests
  <2>4. \A c \in Cli : ~Active(c)' BY DEF WriterInv, CliActive, Active
  <2> QED BY <2>1, <2>3, <2>4 DEF MachineInv
<1>4. CodeInv' BY DEF CodeInv, Active, Spent, CodeUsedOnce, TypeOK, States
<1> QED BY <1>1, <1>2, <1>3, <1>4

LEMMA StopStep == IInv /\ Stop => IInv'
<1> SUFFICES ASSUME IInv, Stop PROVE IInv'
  OBVIOUS
<1> USE PairingAssumption, FileAssumption DEF IInv, Stop, CloseFd, cliVars, Regular
<1>1. TypeOK' BY DEF TypeOK, Procs, States, Blank, Codes
<1>2. WriterInv' BY DEF WriterInv, CliActive, Active, TypeOK, Procs
<1>3. MachineInv' BY DEF MachineInv, Active, DiskMachines
<1>4. CodeInv' BY DEF CodeInv, Active, Spent, CodeUsedOnce, Blank
<1> QED BY <1>1, <1>2, <1>3, <1>4

\* The actions of the pair command.
LEMMA CliReadStep == ASSUME IInv, NEW c \in Cli, CliRead(c) PROVE IInv'
<1> USE PairingAssumption, FileAssumption DEF IInv, CliRead, fileVars, relayVars, CliAt, Regular
<1>0. /\ disk # Torn /\ cliPc[c] = "idle" /\ cliPc' = [cliPc EXCEPT ![c] = "read"]
      /\ cliState' = [cliState EXCEPT ![c] = WithCode(disk, c)]
      /\ WithCode(disk, c) \in States /\ WithCode(disk, c).pending = c
      /\ WithCode(disk, c).machines = DiskMachines
  BY DEF MachineInv, WithCode, TypeOK, Files, States, Codes, Blank, DiskMachines
<1>1. TypeOK' BY <1>0 DEF TypeOK
<1>2. WriterInv' BY <1>0 DEF WriterInv, CliActive, Active, TypeOK
<1>3. MachineInv' BY <1>0 DEF MachineInv, Active, DiskMachines, TypeOK
<1>4. CodeInv' BY <1>0 DEF CodeInv, Active, Spent, CodeUsedOnce, TypeOK
<1> QED BY <1>1, <1>2, <1>3, <1>4

LEMMA CliOpenStep == ASSUME IInv, NEW c \in Cli, CliOpen(c) PROVE IInv'
<1> USE PairingAssumption, FileAssumption DEF IInv, CliOpen, OpenTmp, relayVars, CliAt, Regular
<1>1. TypeOK' BY DEF TypeOK, Procs, Files
<1>2. WriterInv' BY DEF WriterInv, CliActive, Active, TypeOK, Procs
<1>3. MachineInv' BY DEF MachineInv, Active, DiskMachines, TypeOK
<1>4. CodeInv' BY DEF CodeInv, Active, Spent, CodeUsedOnce, TypeOK
<1> QED BY <1>1, <1>2, <1>3, <1>4

LEMMA CliFillStep == ASSUME IInv, NEW c \in Cli, CliFill(c) PROVE IInv'
<1> USE PairingAssumption, FileAssumption DEF IInv, CliFill, relayVars, CliAt, Regular
<1>0. tmp' = cliState[c] /\ disk' = disk /\ fd' = [fd EXCEPT ![c] = "none"]
  BY DEF WriterInv, Fill, Written
<1>1. TypeOK' BY <1>0 DEF TypeOK, Procs, Files
<1>2. WriterInv' BY <1>0 DEF WriterInv, CliActive, Active, TypeOK, Procs
<1>3. MachineInv' BY <1>0 DEF MachineInv, Active, DiskMachines, TypeOK
<1>4. CodeInv' BY <1>0 DEF CodeInv, Active, Spent, CodeUsedOnce, TypeOK
<1> QED BY <1>1, <1>2, <1>3, <1>4

LEMMA CliRenameStep == ASSUME IInv, NEW c \in Cli, CliRename(c) PROVE IInv'
<1> USE PairingAssumption, FileAssumption DEF IInv, CliRename, relayVars, CliAt, Regular
<1>0. /\ disk' = cliState[c] /\ tmp' = Absent /\ fd' = fd /\ cliState[c] \in States
      /\ relayPc = "down" /\ cliState[c].pending = c /\ cliState[c].machines = DiskMachines
      /\ ~Spent(c)
  BY DEF WriterInv, RenameTmp, TypeOK, Procs, CliActive, Active, MachineInv, CodeInv
<1>1. TypeOK' BY <1>0 DEF TypeOK, Files
<1>2. WriterInv' BY <1>0 DEF WriterInv, CliActive, Active, TypeOK
<1>3. MachineInv' BY <1>0 DEF MachineInv, WriterInv, Active, DiskMachines, TypeOK
<1>4. CodeInv' BY <1>0 DEF CodeInv, Active, Spent, CodeUsedOnce, TypeOK
<1> QED BY <1>1, <1>2, <1>3, <1>4

LEMMA CliFailsStep == ASSUME IInv, NEW c \in Cli, CliFails(c) PROVE IInv'
<1> USE PairingAssumption, FileAssumption DEF IInv, CliFails, CloseFd, relayVars, Regular
<1>1. TypeOK' BY DEF TypeOK, Procs
<1>2. WriterInv' BY DEF WriterInv, CliActive, Active, TypeOK, Procs
<1>3. MachineInv' BY DEF MachineInv, Active, DiskMachines, TypeOK
<1>4. CodeInv' BY DEF CodeInv, Active, Spent, CodeUsedOnce, TypeOK
<1> QED BY <1>1, <1>2, <1>3, <1>4

THEOREM IInvInvariant == Regular /\ PairingSpec => []IInv
<1>1. IInv /\ [PairingNext]_vars => IInv'
  <2> SUFFICES ASSUME IInv, [PairingNext]_vars PROVE IInv'
    OBVIOUS
  <2>1. CASE UNCHANGED vars
    BY <2>1 DEF vars, fileVars, relayVars, cliVars, IInv, Regular, TypeOK, WriterInv, MachineInv,
          CodeInv, CliActive, Active, Spent, DiskMachines, CodeUsedOnce
  <2>2. CASE Start \/ PersistOpen \/ PersistFill \/ PersistRename \/ PersistFails \/ Stop
    BY <2>2, StartStep, PersistOpenStep, PersistFillStep, PersistRenameStep, PersistFailsStep, StopStep
  <2>3. CASE \E code \in Codes, id \in Ids, cred \in Creds : Pair(code, id, cred)
    BY <2>3, PairStep
  <2>4. CASE \E c \in Cli : CliRead(c) \/ CliOpen(c) \/ CliFill(c) \/ CliRename(c) \/ CliFails(c)
    BY <2>4, CliReadStep, CliOpenStep, CliFillStep, CliRenameStep, CliFailsStep
  <2> QED BY <2>1, <2>2, <2>3, <2>4 DEF PairingNext
<1> QED BY IInvInit, <1>1, PTL DEF PairingSpec

\* Types.
THEOREM PairingTypeCorrect == Regular /\ PairingSpec => []TypeOK
<1>1. IInv => TypeOK BY DEF IInv
<1> QED BY IInvInvariant, <1>1, PTL

\* A one-time code is one-time over any number of crashes and restarts.
THEOREM CodeUsedOnceCorrect == Regular /\ PairingSpec => []CodeUsedOnce
<1>1. IInv => CodeUsedOnce BY DEF IInv, CodeInv
<1> QED BY IInvInvariant, <1>1, PTL

\* A paired machine stays paired, in the file and in every relay started later.
THEOREM PairedStaysPairedCorrect == Regular /\ PairingSpec => []PairedStaysPaired
<1>1. IInv => PairedStaysPaired
  <2> SUFFICES ASSUME IInv, NEW r \in issued
               PROVE  /\ disk # Torn => disk # Absent /\ disk.machines[r.id] = r.cred
                      /\ relayPc # "down" => mem.machines[r.id] = r.cred
    BY DEF PairedStaysPaired
  <2>1. disk # Torn /\ disk # Absent /\ DiskMachines[r.id] = r.cred /\ r.cred \in Creds /\ r.id \in Ids
    BY DEF IInv, MachineInv, TypeOK, Requests
  <2>2. disk.machines[r.id] = r.cred BY <2>1 DEF DiskMachines
  <2>3. CASE relayPc = "ready" BY <2>1, <2>2, <2>3 DEF IInv, MachineInv
  <2>4. CASE relayPc \in {"pairing", "opened", "filled"}
    <3>1. r.id # req.id BY <2>1, <2>4, PairingAssumption DEF IInv, MachineInv
    <3> QED BY <2>1, <2>2, <2>4, <3>1 DEF IInv, MachineInv, DiskMachines, TypeOK, Files, States
  <2> QED BY <2>1, <2>2, <2>3, <2>4 DEF IInv, TypeOK
<1> QED BY IInvInvariant, <1>1, PTL

\* What the relay accepts while no Pair is in progress is what the file says.
THEOREM AcceptedIsDurableCorrect == Regular /\ PairingSpec => []AcceptedIsDurable
<1>1. IInv => AcceptedIsDurable BY DEF IInv, MachineInv, AcceptedIsDurable
<1> QED BY IInvInvariant, <1>1, PTL

\* The state file is always complete.
THEOREM StateFileWholeCorrect == Regular /\ PairingSpec => []StateFileWhole
<1>1. IInv => StateFileWhole BY DEF IInv, MachineInv, StateFileWhole
<1> QED BY IInvInvariant, <1>1, PTL
=============================================================================
