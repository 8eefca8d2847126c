--------------------------------- MODULE Pairing ---------------------------------
(***************************************************************************)
(* One-time pairing codes and machine credentials (internal/l0/dynamic.go) *)
(* and the process that hands out codes, `piktak-relay pair`               *)
(* (cmd/piktak-relay/main.go).  The relay keeps the state in memory and,   *)
(* when PIKTAK_STATE is set, in a file that both processes replace: they   *)
(* write a temporary file, whose name they share, and rename it.           *)
(*                                                                         *)
(* A step is a system call, or the part of Pair that runs in memory under  *)
(* the mutex; a process can crash and a call can fail between any two.     *)
(* Secrets are model values: a code is named after the process that drew   *)
(* it, a credential is drawn afresh.  The mutex of the pairer keeps at     *)
(* most one Pair in progress, and keeps Authorize out while it is.         *)
(***************************************************************************)
EXTENDS Naturals

CONSTANTS Ids,          \* machine ids
          Creds,        \* credentials
          Cli,          \* runs of `piktak-relay pair`, and the codes they draw
          Relay,        \* the relay process
          ConfigCode,   \* PIKTAK_PAIR_CODE, NoCode when it is not set
          NoCode, NoCred, NoReq,
          Absent, Torn, \* no file; a file that is empty or cut short
          HasState,     \* PIKTAK_STATE is set
          PairWhileUp   \* the operator runs `pair` while the relay runs

ASSUME PairingAssumption ==
    /\ NoCred \notin Creds
    /\ Relay \notin Cli /\ NoCode \notin Cli /\ ConfigCode \notin Cli
    /\ HasState \in BOOLEAN /\ PairWhileUp \in BOOLEAN
    /\ HasState \/ ConfigCode # NoCode

Codes == Cli \cup {ConfigCode}
Procs == Cli \cup {Relay}

\* dynamicState: the pending code and the credential of each paired machine.
States == [pending : Codes \cup {NoCode}, machines : [Ids -> Creds \cup {NoCred}]]
Files == States \cup {Absent, Torn}
Requests == [code : Codes, id : Ids, cred : Creds]

ASSUME FileAssumption == Absent \notin States /\ Torn \notin States /\ Absent # Torn
                         /\ NoReq \notin Requests

VARIABLES disk, tmp,  \* the state file and the temporary file
          fd,         \* what the open descriptor of a process refers to
          relayPc,    \* where the relay process is
          mem,        \* DynamicPairer.pairingHash and .machines
          req,        \* the Pair in progress
          drawn,      \* the credentials drawn so far
          issued,     \* the pairings that returned a credential
          cliPc,      \* where each run of `pair` is
          cliState    \* what it is about to write

fileVars == <<disk, tmp, fd>>
relayVars == <<relayPc, mem, req, drawn, issued>>
cliVars == <<cliPc, cliState>>
vars == <<fileVars, relayVars, cliVars>>

Blank(code) == [pending |-> code, machines |-> [i \in Ids |-> NoCred]]

TypeOK ==
    /\ disk \in Files /\ tmp \in Files
    /\ fd \in [Procs -> {"none", "tmp", "disk", "gone"}]
    /\ relayPc \in {"down", "ready", "pairing", "opened", "filled"}
    /\ mem \in States
    /\ req \in Requests \cup {NoReq}
    /\ drawn \subseteq Creds
    /\ issued \subseteq Requests
    /\ cliPc \in [Cli -> {"idle", "read", "opened", "filled", "done"}]
    /\ cliState \in [Cli -> States]

PairingInit ==
    /\ disk = Absent /\ tmp = Absent
    /\ fd = [p \in Procs |-> "none"]
    /\ relayPc = "down"
    /\ mem = Blank(NoCode)
    /\ req = NoReq
    /\ drawn = {} /\ issued = {}
    /\ cliPc = [c \in Cli |-> "idle"]
    /\ cliState = [c \in Cli |-> Blank(NoCode)]

RelayAt(from, to) == relayPc = from /\ relayPc' = to
CliAt(c, from, to) == cliPc[c] = from /\ cliPc' = [cliPc EXCEPT ![c] = to]

-----------------------------------------------------------------------------
\* os.WriteFile and os.Rename on the temporary file.

\* Mutant: the state file is written in place.
OpenInPlace(p) ==
    /\ disk' = Torn
    /\ fd' = [fd EXCEPT ![p] = "disk"]
    /\ UNCHANGED tmp

\* Opening truncates; a descriptor refers to the file, not to its name.
OpenTmp(p) ==
    /\ tmp' = Torn
    /\ fd' = [fd EXCEPT ![p] = "tmp"]
    /\ UNCHANGED disk

\* Two processes that write one file at once may leave a mixture.
Written(file, st) == IF file = Torn THEN {st} ELSE {st, Torn}

Fill(p, st) ==
    /\ IF fd[p] = "tmp" THEN tmp' \in Written(tmp, st) ELSE tmp' = tmp
    /\ IF fd[p] = "disk" THEN disk' \in Written(disk, st) ELSE disk' = disk
    /\ fd' = [fd EXCEPT ![p] = "none"]

\* The temporary file takes the name of the state file, whatever is in it and
\* whoever still has it open.
RenameTmp ==
    /\ tmp # Absent
    /\ disk' = tmp
    /\ tmp' = Absent
    /\ fd' = [p \in Procs |-> IF fd[p] = "tmp" THEN "disk"
                              ELSE IF fd[p] = "disk" THEN "gone" ELSE fd[p]]

CloseFd(p) == fd' = [fd EXCEPT ![p] = "none"] /\ UNCHANGED <<disk, tmp>>

-----------------------------------------------------------------------------
\* The relay process.

CliActive == \E c \in Cli : cliPc[c] \in {"read", "opened", "filled"}

\* Mutant: the configured code is armed although a state file exists.
ConfigCodeWins(file) ==
    IF HasState /\ file # Absent /\ ConfigCode # NoCode
    THEN [file EXCEPT !.pending = ConfigCode]
    ELSE IF HasState /\ file # Absent THEN file ELSE Blank(ConfigCode)

\* Mutant: a missing state file is taken for an empty one.
MissingFileLoaded(file) == IF HasState THEN file ELSE Blank(ConfigCode)

\* An existing state file is authoritative.
Loaded(file) == IF HasState /\ file # Absent THEN file ELSE Blank(ConfigCode)

\* NewDynamicPairer.  A state file that cannot be parsed is fatal: no step.
Start ==
    /\ RelayAt("down", "ready")
    /\ HasState => disk # Torn
    /\ PairWhileUp \/ ~CliActive
    /\ mem' = Loaded(disk)
    /\ UNCHANGED <<fileVars, req, drawn, issued, cliVars>>

\* Mutant: the code stays pending.
CodeKept(st, id, cred) == [st EXCEPT !.machines[id] = cred]

AfterPair(st, id, cred) == [st EXCEPT !.machines[id] = cred, !.pending = NoCode]

\* The part of Pair that runs in memory.  A wrong code or a machine that is
\* paired already changes nothing.  Without a state file this is all of Pair.
Pair(code, id, cred) ==
    /\ RelayAt("ready", IF HasState THEN "pairing" ELSE "ready")
    /\ code # NoCode /\ mem.pending = code
    /\ mem.machines[id] = NoCred
    /\ cred \notin drawn
    /\ drawn' = drawn \cup {cred}
    /\ mem' = AfterPair(mem, id, cred)
    /\ LET r == [code |-> code, id |-> id, cred |-> cred] IN
         /\ req' = IF HasState THEN r ELSE NoReq
         /\ issued' = IF HasState THEN issued ELSE issued \cup {r}
    /\ UNCHANGED <<fileVars, cliVars>>

\* persistLocked, one system call at a time.
PersistOpen ==
    /\ RelayAt("pairing", "opened")
    /\ OpenTmp(Relay)
    /\ UNCHANGED <<mem, req, drawn, issued, cliVars>>

PersistFill ==
    /\ RelayAt("opened", "filled")
    /\ Fill(Relay, mem)
    /\ UNCHANGED <<mem, req, drawn, issued, cliVars>>

PersistRename ==
    /\ RelayAt("filled", "ready")
    /\ RenameTmp
    /\ issued' = issued \cup {req}
    /\ req' = NoReq
    /\ UNCHANGED <<mem, drawn, cliVars>>

\* Mutant: the machine stays paired in memory.
FailureIgnored(st, id) == st

\* The machine is removed again; the code is not put back.
AfterFailure(st, id) == [st EXCEPT !.machines[id] = NoCred]

PersistFails ==
    /\ relayPc \in {"pairing", "opened", "filled"}
    /\ relayPc' = "ready"
    /\ mem' = AfterFailure(mem, req.id)
    /\ req' = NoReq
    /\ CloseFd(Relay)
    /\ UNCHANGED <<drawn, issued, cliVars>>

\* The relay process ends, orderly or not.
Stop ==
    /\ relayPc # "down"
    /\ relayPc' = "down"
    /\ mem' = Blank(NoCode)
    /\ req' = NoReq
    /\ CloseFd(Relay)
    /\ UNCHANGED <<drawn, issued, cliVars>>

-----------------------------------------------------------------------------
\* piktak-relay pair.

\* Mutant: the machines in the file are not read.
MachinesForgotten(file, c) == Blank(c)

WithCode(file, c) == IF file = Absent THEN Blank(c) ELSE [file EXCEPT !.pending = c]

\* A state file that cannot be parsed ends the command.
CliRead(c) ==
    /\ HasState
    /\ PairWhileUp \/ (relayPc = "down" /\ ~CliActive)
    /\ IF disk = Torn
       THEN CliAt(c, "idle", "done") /\ UNCHANGED cliState
       ELSE /\ CliAt(c, "idle", "read")
            /\ cliState' = [cliState EXCEPT ![c] = WithCode(disk, c)]
    /\ UNCHANGED <<fileVars, relayVars>>

CliOpen(c) ==
    /\ CliAt(c, "read", "opened")
    /\ OpenTmp(c)
    /\ UNCHANGED <<relayVars, cliState>>

CliFill(c) ==
    /\ CliAt(c, "opened", "filled")
    /\ Fill(c, cliState[c])
    /\ UNCHANGED <<relayVars, cliState>>

\* The code is printed after the rename.
CliRename(c) ==
    /\ CliAt(c, "filled", "done")
    /\ RenameTmp
    /\ UNCHANGED <<relayVars, cliState>>

\* A call fails or the command is killed.
CliFails(c) ==
    /\ cliPc[c] \in {"read", "opened", "filled"}
    /\ cliPc' = [cliPc EXCEPT ![c] = "done"]
    /\ CloseFd(c)
    /\ UNCHANGED <<relayVars, cliState>>

PairingNext ==
    \/ Start
    \/ \E code \in Codes, id \in Ids, cred \in Creds : Pair(code, id, cred)
    \/ PersistOpen
    \/ PersistFill
    \/ PersistRename
    \/ PersistFails
    \/ Stop
    \/ \E c \in Cli : CliRead(c)
    \/ \E c \in Cli : CliOpen(c)
    \/ \E c \in Cli : CliFill(c)
    \/ \E c \in Cli : CliRename(c)
    \/ \E c \in Cli : CliFails(c)

PairingSpec == PairingInit /\ [][PairingNext]_vars

-----------------------------------------------------------------------------
\* A code yields at most one credential, however often the relay is stopped in
\* the middle of a pairing and started again (docs/protocol.md:35).
CodeUsedOnce == \A r1, r2 \in issued : r1.code = r2.code => r1 = r2

\* A machine that was given a credential stays paired with it: in the file, and
\* in the memory of every relay that is started later (dynamic.go:49-50 and
\* :100-101).
PairedStaysPaired ==
    \A r \in issued :
        /\ HasState /\ disk # Torn => disk # Absent /\ disk.machines[r.id] = r.cred
        /\ relayPc # "down" => mem.machines[r.id] = r.cred

\* The machines the state file lists.
DiskMachines == IF disk \in {Absent, Torn} THEN Blank(NoCode).machines ELSE disk.machines

\* When no Pair is in progress, what Authorize accepts is what the file says: a
\* restart neither revokes nor grants a credential (Pair, persistLocked).
AcceptedIsDurable ==
    HasState /\ relayPc = "ready" =>
        mem.machines = DiskMachines

\* The state file is never cut short, so that the relay can always start.
StateFileWhole == disk # Torn
=============================================================================
