---------------------------------- MODULE Enrol ----------------------------------
(***************************************************************************)
(* How a machine enrols and comes back: the services of one piktakd        *)
(* process (cmd/piktakd, internal/bridge/thost.go) against the relay of    *)
(* module Pairing.  All services have the pairing code and the credential  *)
(* file of their configuration, and each dials, says hello, saves the      *)
(* credential it is given and, when its connection ends, waits and dials   *)
(* again with a new bridge.Host: only the file outlives an attempt.  They  *)
(* share the state of the status page (internal/status) and a context that *)
(* SIGTERM cancels.                                                        *)
(*                                                                         *)
(* The services have names, and so host ids of their own, and their        *)
(* configuration holds no credential.                                      *)
(*                                                                         *)
(* Faults: a connection breaks, the relay stops, piktakd is killed, a      *)
(* write fails.  Their number, Pairing's included, is bounded by           *)
(* MaxFaults.                                                              *)
(***************************************************************************)
EXTENDS Pairing, FiniteSets

CONSTANTS Svcs,       \* the services of the configuration
          MachineId,  \* machine_id, NoId when it is not set
          NoId,
          NoSvc,      \* whoever else pairs with the relay
          MaxFaults

ASSUME EnrolAssumption ==
    /\ MachineId \in Ids \cup {NoId} /\ NoId \notin Ids
    /\ IsFiniteSet(Svcs) /\ NoSvc \notin Svcs
    /\ Torn \notin Creds /\ Torn # NoCred
    /\ MaxFaults \in Nat

VARIABLES svcPc,      \* where each service is
          svcCode,    \* Host.PairingCode of the attempt
          svcCred,    \* Host.Credential of the attempt
          conns,      \* the services whose control connection is up
          cfgCode,    \* pairing_code
          credFile,   \* the credential file; NoCred: nothing in it, or no file
          asker,      \* whose Pair is in progress
          saved,      \* a service came online with its credential saved
          active,     \* State.active of the status page
          stopping,   \* the context of piktakd is cancelled
          faults

procVars == <<active, stopping>>
svcVars == <<svcPc, svcCode, svcCred, conns, cfgCode, credFile, asker, saved, procVars>>
enrolVars == <<vars, svcVars, faults>>

SvcTypeOK ==
    /\ svcPc \in [Svcs -> {"off", "idle", "asked", "answered", "saving", "online"}]
    /\ svcCode \in [Svcs -> Codes \cup {NoCode}]
    /\ svcCred \in [Svcs -> Creds \cup {NoCred, Torn}]
    /\ conns \subseteq Svcs
    /\ cfgCode \in Codes \cup {NoCode}
    /\ credFile \in Creds \cup {NoCred, Torn}
    /\ asker \in Svcs \cup {NoSvc}
    /\ saved \in BOOLEAN
    /\ active \in Nat
    /\ stopping \in BOOLEAN
    /\ faults \in 0..MaxFaults

EnrolTypeOK == TypeOK /\ SvcTypeOK

EnrolInit ==
    /\ PairingInit
    /\ svcPc = [s \in Svcs |-> "off"]
    /\ svcCode = [s \in Svcs |-> NoCode]
    /\ svcCred = [s \in Svcs |-> NoCred]
    /\ conns = {}
    /\ cfgCode = NoCode
    /\ credFile = NoCred
    /\ asker = NoSvc
    /\ saved = FALSE
    /\ active = 0 /\ stopping = FALSE
    /\ faults = 0

SvcAt(s, from, to) == svcPc[s] = from /\ svcPc' = [svcPc EXCEPT ![s] = to]
Fault == faults < MaxFaults /\ faults' = faults + 1

-----------------------------------------------------------------------------
\* piktakd.

\* The operator starts piktakd.  The configuration has a code that the relay has
\* drawn, has used, has not drawn yet, or no code: the credential file is enough.
StartBridge(code) ==
    /\ \A s \in Svcs : svcPc[s] = "off"
    /\ cfgCode' = code
    /\ svcPc' = [s \in Svcs |-> "idle"]
    /\ active' = 0 /\ stopping' = FALSE
    /\ UNCHANGED <<vars, svcCode, svcCred, conns, credFile, asker, saved, faults>>

\* Mutant: the code is presented as long as it is configured.
CodeFirst(cred) == cfgCode

\* Mutant: the credential is presented as a code.
CredAsCode(cred) == IF cred # NoCred THEN cred ELSE cfgCode

\* A credential wins over the code.
CodeToSend(cred) == IF cred # NoCred THEN NoCode ELSE cfgCode

\* Run up to the hello: dial, read the file, refuse to go on with nothing.
Hello(s) ==
    /\ SvcAt(s, "idle", "asked")
    /\ relayPc # "down"
    /\ credFile # NoCred \/ cfgCode # NoCode
    /\ svcCred' = [svcCred EXCEPT ![s] = credFile]
    /\ svcCode' = [svcCode EXCEPT ![s] = CodeToSend(credFile)]
    /\ conns' = conns \cup {s}
    /\ UNCHANGED <<vars, cfgCode, credFile, asker, saved, procVars, faults>>

\* hello.ok is read: os.WriteFile opens and truncates the file, whether or not
\* the credential in it is the one just read.
SaveOpen(s) ==
    /\ SvcAt(s, "answered", "saving")
    /\ credFile' = NoCred
    /\ UNCHANGED <<vars, svcCode, svcCred, conns, cfgCode, asker, saved, procVars, faults>>

\* The service is online, and counts as connected.
SaveWrite(s) ==
    /\ SvcAt(s, "saving", "online")
    /\ credFile' = svcCred[s]
    /\ saved' = TRUE
    /\ active' = active + 1
    /\ UNCHANGED <<vars, svcCode, svcCred, conns, cfgCode, asker, stopping, faults>>

\* Mutant: the deferred SetConnected(false) runs however far the attempt got.
AlwaysDisconnected(s) == IF active > 0 THEN active - 1 ELSE active

\* Only an attempt that got online has deferred SetConnected(false).
ActiveAfter(s) == IF svcPc[s] = "online" /\ active > 0 THEN active - 1 ELSE active

\* The attempt ends: Close, and nothing of it is kept.  The loop goes on unless
\* the context was cancelled meanwhile.
Ended(s) ==
    /\ svcPc' = [svcPc EXCEPT ![s] = IF stopping THEN "off" ELSE "idle"]
    /\ active' = ActiveAfter(s)
    /\ stopping' = stopping
    /\ svcCode' = [svcCode EXCEPT ![s] = NoCode]
    /\ svcCred' = [svcCred EXCEPT ![s] = NoCred]
    /\ conns' = conns \ {s}

\* The file cannot be opened, or its content not be written in full.
SaveFails(s) ==
    /\ Fault
    /\ \/ svcPc[s] = "answered" /\ UNCHANGED credFile
       \/ svcPc[s] = "saving" /\ credFile' \in {credFile, Torn}
    /\ Ended(s)
    /\ UNCHANGED <<vars, cfgCode, asker, saved>>

\* The service finds its connection gone and waits for the next attempt.
Lost(s) ==
    /\ s \notin conns
    /\ svcPc[s] \in {"asked", "answered", "online"}
    /\ Ended(s)
    /\ UNCHANGED <<vars, cfgCode, credFile, asker, saved, faults>>

\* piktakd is killed; what it was writing may be cut short.
StopBridge ==
    /\ Fault
    /\ \E s \in Svcs : svcPc[s] # "off"
    /\ svcPc' = [s \in Svcs |-> "off"]
    /\ svcCode' = [s \in Svcs |-> NoCode]
    /\ svcCred' = [s \in Svcs |-> NoCred]
    /\ conns' = {}
    /\ IF \E s \in Svcs : svcPc[s] = "saving"
       THEN credFile' \in {credFile, Torn}
       ELSE UNCHANGED credFile
    /\ asker' = NoSvc
    /\ active' = 0 /\ stopping' = FALSE
    /\ UNCHANGED <<vars, cfgCode, saved>>

\* SIGTERM or an interrupt: a service that waits for its next attempt returns.
\* ReadFrame does not look at the context, so that one with a connection does not.
Terminate ==
    /\ ~stopping /\ stopping' = TRUE
    /\ \E s \in Svcs : svcPc[s] # "off"
    /\ svcPc' = [s \in Svcs |-> IF svcPc[s] = "idle" THEN "off" ELSE svcPc[s]]
    /\ UNCHANGED <<vars, svcCode, svcCred, conns, cfgCode, credFile, asker, saved, active, faults>>

\* The connection of a service breaks, an answer on its way included.
Break(s) ==
    /\ Fault
    /\ s \in conns
    /\ conns' = conns \ {s}
    /\ asker' = IF asker = s THEN NoSvc ELSE asker
    /\ UNCHANGED <<vars, svcPc, svcCode, svcCred, cfgCode, credFile, saved, procVars>>

-----------------------------------------------------------------------------
\* The relay's handleHello.

HelloAt(s) == svcPc[s] = "asked" /\ s \in conns /\ relayPc = "ready"

\* hello.ok is on its way.
Answer(s, cred) ==
    /\ svcPc' = [svcPc EXCEPT ![s] = "answered"]
    /\ svcCred' = [svcCred EXCEPT ![s] = cred]

\* Mutant: the service is answered before the state is saved.
AnsweredUnsaved(s, id, cred) ==
    /\ HelloAt(s)
    /\ Pair(svcCode[s], id, cred)
    /\ Answer(s, cred)
    /\ UNCHANGED <<svcCode, conns, cfgCode, credFile, asker, saved, procVars, faults>>

\* A hello with a code, as far as Pair runs in memory.
HelloPair(s, id, cred) ==
    /\ HelloAt(s)
    /\ MachineId # NoId => id = MachineId
    /\ Pair(svcCode[s], id, cred)
    /\ IF HasState
       THEN asker' = s /\ UNCHANGED <<svcPc, svcCred>>
       ELSE asker' = asker /\ Answer(s, cred)
    /\ UNCHANGED <<svcCode, conns, cfgCode, credFile, saved, procVars, faults>>

\* Another machine pairs.
OtherPair(code, id, cred) ==
    /\ Pair(code, id, cred)
    /\ asker' = NoSvc
    /\ UNCHANGED <<svcPc, svcCode, svcCred, conns, cfgCode, credFile, saved, procVars, faults>>

\* The code is not pending, or the machine it is to name is paired.
CodeRefused(code) ==
    \/ code # mem.pending
    \/ MachineId # NoId /\ mem.machines[MachineId] # NoCred

\* Mutant: any credential is let in while no code is pending.
LetIn(cred) == mem.pending = NoCode

\* DynamicPairer.Authorize.
Authorized(cred) == cred \in Creds /\ \E id \in Ids : mem.machines[id] = cred

\* A hello with a credential; hello.ok gives the credential back.
HelloAuthorized(s) ==
    /\ HelloAt(s)
    /\ svcCode[s] = NoCode /\ Authorized(svcCred[s])
    /\ Answer(s, svcCred[s])
    /\ UNCHANGED <<vars, svcCode, conns, cfgCode, credFile, asker, saved, procVars, faults>>

HelloRefused(s) ==
    /\ HelloAt(s)
    /\ IF svcCode[s] # NoCode THEN CodeRefused(svcCode[s]) ELSE ~Authorized(svcCred[s])
    /\ Ended(s)
    /\ UNCHANGED <<vars, cfgCode, credFile, asker, saved, faults>>

\* Pair returns.
PairSaved ==
    /\ PersistRename
    /\ IF asker # NoSvc THEN Answer(asker, req.cred) ELSE UNCHANGED <<svcPc, svcCred>>
    /\ asker' = NoSvc
    /\ UNCHANGED <<svcCode, conns, cfgCode, credFile, saved, procVars, faults>>

PairNotSaved ==
    /\ Fault
    /\ PersistFails
    /\ IF asker # NoSvc
       THEN Ended(asker)
       ELSE UNCHANGED <<svcPc, svcCode, svcCred, conns, procVars>>
    /\ asker' = NoSvc
    /\ UNCHANGED <<cfgCode, credFile, saved>>

StopRelay ==
    /\ Fault
    /\ Stop
    /\ conns' = {}
    /\ asker' = NoSvc
    /\ UNCHANGED <<svcPc, svcCode, svcCred, cfgCode, credFile, saved, procVars>>

\* The steps of Pairing that no service sees.
PairingAlone ==
    /\ \/ /\ \/ Start
             \/ PersistOpen
             \/ PersistFill
             \/ \E c \in Cli : CliRead(c)
             \/ \E c \in Cli : CliOpen(c)
             \/ \E c \in Cli : CliFill(c)
             \/ \E c \in Cli : CliRename(c)
          /\ UNCHANGED faults
       \/ Fault /\ \E c \in Cli : CliFails(c)
    /\ UNCHANGED svcVars

EnrolNext ==
    \/ \E code \in Codes \cup {NoCode} : StartBridge(code)
    \/ \E s \in Svcs : Hello(s)
    \/ \E s \in Svcs : SaveOpen(s)
    \/ \E s \in Svcs : SaveWrite(s)
    \/ \E s \in Svcs : SaveFails(s)
    \/ \E s \in Svcs : Lost(s)
    \/ StopBridge
    \/ Terminate
    \/ \E s \in Svcs : Break(s)
    \/ \E s \in Svcs, id \in Ids, cred \in Creds : HelloPair(s, id, cred)
    \/ \E code \in Codes, id \in Ids, cred \in Creds : OtherPair(code, id, cred)
    \/ \E s \in Svcs : HelloAuthorized(s)
    \/ \E s \in Svcs : HelloRefused(s)
    \/ PairSaved
    \/ PairNotSaved
    \/ StopRelay
    \/ PairingAlone

\* Goroutines and handlers run on, runServiceLoop retries for ever, a Pair or a
\* pair command in progress gets to its end, and whoever operates the relay
\* starts it again after it stopped.
SvcStep(s) == Hello(s) \/ SaveOpen(s) \/ SaveWrite(s) \/ Lost(s)
HelloStep(s) ==
    \/ \E id \in Ids, cred \in Creds : HelloPair(s, id, cred)
    \/ HelloAuthorized(s)
    \/ HelloRefused(s)
RelayStep == Start \/ PersistOpen \/ PersistFill
CliStep(c) == CliOpen(c) \/ CliFill(c) \/ CliRename(c)

EnrolFairness ==
    /\ \A s \in Svcs : WF_enrolVars(SvcStep(s)) /\ WF_enrolVars(HelloStep(s))
    /\ WF_enrolVars(PairingAlone /\ RelayStep) /\ WF_enrolVars(PairSaved)
    /\ \A c \in Cli : WF_enrolVars(PairingAlone /\ CliStep(c))

EnrolSpec == EnrolInit /\ [][EnrolNext]_enrolVars /\ EnrolFairness

-----------------------------------------------------------------------------
\* What a service is let in with, and what is left in the file, is a credential
\* the relay issued: nothing gets in by a race for a code, a failed save or a
\* torn file (thost.go:95-103, dynamic.go:109-143).
SavedIsPaired ==
    /\ credFile \in Creds => \E r \in issued : r.cred = credFile
    /\ \A s \in Svcs : svcPc[s] \in {"answered", "saving", "online"} =>
           \E r \in issued : r.cred = svcCred[s]

\* A machine that saved its credential is not turned away when it comes back: the
\* relay that reads the hello, restarted any number of times and after any failed
\* save, accepts what the service has read from its file (thost.go:53-61,
\* dynamic.go:82-119 and :139-142).
SavedIsAccepted ==
    \A s \in Svcs : HelloAt(s) /\ svcCred[s] \in Creds => Authorized(svcCred[s])

\* The status page says "connected" exactly while a service is online, though the
\* services that share its counter come and go on their own (status.go:50-58,
\* thost.go:105-108).
StatusTruthful == active > 0 <=> \E s \in Svcs : svcPc[s] = "online"

\* What thost.go:40-41 says of Run: it serves until its context is cancelled.
EndsWhenCancelled == \A s \in Svcs : stopping ~> svcPc[s] = "off"

\* The saved credential is gone, and nobody is about to write it.
Forgotten == credFile \notin Creds /\ \A s \in Svcs : svcPc[s] # "saving"

\* "After the first connection, piktakd saves the credential and reconnects
\* with it automatically" (README.en.md:173): a machine that was saved once has
\* a credential whenever it dials.
SavedForGood == saved => ~Forgotten

\* While there is a credential in the file, every service of the machine gets
\* online, the one that lost the race for the shared code included
\* (main.go:200-223, thost.go:53-61).
ServicesComeOnline ==
    \A s \in Svcs : (credFile \in Creds /\ svcPc[s] = "idle") ~>
        (svcPc[s] \in {"online", "off"} \/ Forgotten)
=============================================================================
