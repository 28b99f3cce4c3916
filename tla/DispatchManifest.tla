-------------------------- MODULE DispatchManifest --------------------------
(***************************************************************************)
(* scripts/fv_run.py: the run.json manifest through which harnesses of an   *)
(* adversarial pass coordinate.  Commands are processes that lock, load,    *)
(* change and save the manifest, and may die in between; harnesses write    *)
(* one output file per voice; synthesize reads without the lock.            *)
(***************************************************************************)
EXTENDS Naturals, Sequences, FiniteSets

CONSTANTS
    Voices,
    Commands,     \* processes, each runs one complete, error or reset
    MaxResets,    \* resets of one voice
    MaxCrashes    \* commands killed half-way

None == "none"
ASSUME CommandsAssumption == None \notin Commands /\ MaxResets \in Nat

Idle == [op |-> None]
Entry(status, history) == [status |-> status, history |-> history]
Absent == [attempt |-> 0, empty |-> TRUE]

VARIABLES
    manifest,   \* run.json: voice -> [status, history]
    lock,       \* holder of run.json.lock
    command,    \* per process, its arguments and its copy of the manifest
    output,     \* per voice, the attempt that wrote its file
    asides,     \* per voice, <voice>.attempt<n>: the outputs moved aside
    harness,    \* per voice, the attempts that may still write
    synthesis,  \* the reader: its copy, what it has read, its label
    crashes,
    told,       \* history: per voice, the status last saved for it
    disturbed   \* history: voices whose output a reset moved aside without
                \* having saved that, or while the synthesis read

manifestVars == <<manifest, lock, command, output, asides, harness, synthesis,
                  crashes, told, disturbed>>

ManifestInit ==
    /\ manifest = [v \in Voices |-> Entry("pending", <<>>)]
    /\ lock = None
    /\ command = [c \in Commands |-> Idle]
    /\ output = [v \in Voices |-> Absent]
    /\ asides = [v \in Voices |-> <<>>]
    /\ harness = [v \in Voices |-> {1}]
    /\ synthesis = [pc |-> "idle"]
    /\ crashes = 0
    /\ told = [v \in Voices |-> "pending"]
    /\ disturbed = {}

-----------------------------------------------------------------------------
\* The harness of an attempt writes the file of its voice, if ever; nothing
\* stops the harness of an attempt that was reset.
HarnessWrites(v, a) ==
    /\ a \in harness[v]
    /\ \E empty \in BOOLEAN : output' = [output EXCEPT ![v] = [attempt |-> a, empty |-> empty]]
    /\ harness' = [harness EXCEPT ![v] = @ \ {a}]
    /\ UNCHANGED <<manifest, lock, command, asides, synthesis, crashes, told, disturbed>>

\* (mutant) The manifest is loaded without the lock.
LoadUnlocked(c, op, v) ==
    /\ command[c] = Idle
    /\ op = "reset" => Len(manifest[v].history) < MaxResets
    /\ command' = [command EXCEPT ![c] = [op |-> op, voice |-> v, copy |-> manifest, moved |-> FALSE]]
    /\ UNCHANGED <<manifest, lock, output, asides, harness, synthesis, crashes, told, disturbed>>

\* complete, error or reset: manifest_lock, then load_manifest.
Load(c, op, v) ==
    /\ command[c] = Idle /\ lock = None
    /\ op = "reset" => Len(manifest[v].history) < MaxResets
    /\ lock' = c
    /\ command' = [command EXCEPT ![c] = [op |-> op, voice |-> v, copy |-> manifest, moved |-> FALSE]]
    /\ UNCHANGED <<manifest, output, asides, harness, synthesis, crashes, told, disturbed>>

\* save_manifest, then the lock is released and the command reports success.
\* After a reset the operator starts the next attempt of the voice.
Save(c, entry) ==
    LET v == command[c].voice
    IN  /\ manifest' = [command[c].copy EXCEPT ![v] = entry]
        /\ harness' = IF command[c].op = "reset"
                      THEN [harness EXCEPT ![v] = @ \union {Len(entry.history) + 1}] ELSE harness
        /\ told' = [told EXCEPT ![v] = entry.status]
        /\ command' = [command EXCEPT ![c] = Idle]
        /\ lock' = IF lock = c THEN None ELSE lock
        /\ disturbed' = IF command[c].op = "reset" /\ synthesis.pc = "idle"
                        THEN disturbed \ {v} ELSE disturbed
        /\ UNCHANGED <<output, asides, synthesis, crashes>>

Copied(c) == command[c].copy[command[c].voice]

\* An absent or an empty file is refused; one older than the attempt is too,
\* but for a second of tolerance, so a file from around the reset passes.
Complete(c) ==
    /\ command[c].op = "complete"
    /\ output[command[c].voice].attempt > 0 /\ ~output[command[c].voice].empty
    /\ Save(c, [Copied(c) EXCEPT !.status = "complete"])

CompleteRefused(c) ==
    /\ command[c].op = "complete"
    /\ output[command[c].voice].empty
    /\ command' = [command EXCEPT ![c] = Idle]
    /\ lock' = None
    /\ UNCHANGED <<manifest, output, asides, harness, synthesis, crashes, told, disturbed>>

Error(c) ==
    /\ command[c].op = "error"
    /\ Save(c, [Copied(c) EXCEPT !.status = "error"])

\* (mutant) reset removes the output of the attempt.
ResetDiscards(c) ==
    /\ command[c].op = "reset" /\ ~command[c].moved
    /\ command' = [command EXCEPT ![c].moved = TRUE]
    /\ output' = [output EXCEPT ![command[c].voice] = Absent]
    /\ disturbed' = disturbed \union {command[c].voice}
    /\ UNCHANGED <<manifest, lock, asides, harness, synthesis, crashes, told>>

\* reset renames the output aside before it saves the manifest.
ResetMoves(c) ==
    LET v == command[c].voice
        n == Len(Copied(c).history) + 1
    IN  /\ command[c].op = "reset" /\ ~command[c].moved
        /\ command' = [command EXCEPT ![c].moved = TRUE]
        /\ IF output[v] # Absent
           THEN /\ asides' = [asides EXCEPT ![v] = [i \in DOMAIN @ \union {n} |->
                                  IF i = n THEN output[v].attempt ELSE @[i]]]
                /\ output' = [output EXCEPT ![v] = Absent]
                /\ disturbed' = disturbed \union {v}
           ELSE UNCHANGED <<asides, output, disturbed>>
        /\ UNCHANGED <<manifest, lock, harness, synthesis, crashes, told>>

ResetSaves(c) ==
    /\ command[c].op = "reset" /\ command[c].moved
    /\ Save(c, Entry("pending", Append(Copied(c).history, Copied(c).status)))

\* The process dies; the kernel releases its lock.
Crash(c) ==
    /\ command[c] # Idle /\ crashes < MaxCrashes
    /\ crashes' = crashes + 1
    /\ command' = [command EXCEPT ![c] = Idle]
    /\ lock' = IF lock = c THEN None ELSE lock
    /\ UNCHANGED <<manifest, output, asides, harness, synthesis, told, disturbed>>

-----------------------------------------------------------------------------
\* (mutant) A partial synthesis is not labelled as one.
SynthesisUnlabelled(partial) ==
    LET complete == {v \in Voices : manifest[v].status = "complete"}
    IN  /\ synthesis.pc = "idle"
        /\ complete # {} /\ (complete = Voices \/ partial)
        /\ synthesis' = [pc |-> "reading", labelled |-> FALSE, todo |-> complete, included |-> {}]
    /\ UNCHANGED <<manifest, lock, command, output, asides, harness, crashes, told, disturbed>>

\* synthesize: the manifest is read once, then the file of each voice.
SynthesisLoads(partial) ==
    LET incomplete == {v \in Voices : manifest[v].status # "complete"}
    IN  /\ synthesis.pc = "idle"
        /\ incomplete = {} \/ partial
        /\ incomplete # Voices
        /\ synthesis' = [pc |-> "reading", labelled |-> incomplete # {},
                         todo |-> Voices \ incomplete, included |-> {}]
    /\ UNCHANGED <<manifest, lock, command, output, asides, harness, crashes, told, disturbed>>

SynthesisReads(v) ==
    /\ synthesis.pc = "reading" /\ v \in synthesis.todo
    /\ synthesis' = [synthesis EXCEPT !.todo = @ \ {v},
                         !.included = IF output[v] # Absent THEN @ \union {v} ELSE @]
    /\ UNCHANGED <<manifest, lock, command, output, asides, harness, crashes, told, disturbed>>

SynthesisWrites ==
    /\ synthesis.pc = "reading" /\ synthesis.todo = {}
    /\ synthesis' = [synthesis EXCEPT !.pc = "written"]
    /\ UNCHANGED <<manifest, lock, command, output, asides, harness, crashes, told, disturbed>>

ManifestNext ==
    \/ \E v \in Voices, a \in 1 .. MaxResets + 1 : HarnessWrites(v, a)
    \/ \E v \in Voices : SynthesisReads(v)
    \/ \E c \in Commands, v \in Voices, op \in {"complete", "error", "reset"} : Load(c, op, v)
    \/ \E c \in Commands : \/ Complete(c) \/ CompleteRefused(c) \/ Error(c)
                           \/ ResetMoves(c) \/ ResetSaves(c) \/ Crash(c)
    \/ \E partial \in BOOLEAN : SynthesisLoads(partial)
    \/ SynthesisWrites

ManifestSpec == ManifestInit /\ [][ManifestNext]_manifestVars

-----------------------------------------------------------------------------
\* No command is lost to another: the manifest has the status that the last
\* complete, error or reset of each voice saved.  (manifest_lock)
UpdatesKept == \A v \in Voices : manifest[v].status = told[v]

\* Retries erase no evidence: an output that leaves the file of its voice is
\* set aside under some number of its voice, and what the saved history counts
\* stays there.  Only the file a dead reset moved has a number that the history
\* does not know yet, and the next reset gives that number away again.
\* (cmd_reset)
AttemptsKept ==
    [][\A v \in Voices :
         /\ \A n \in DOMAIN asides[v] \intersect 1 .. Len(manifest[v].history) :
              n \in DOMAIN asides'[v] /\ asides'[v][n] = asides[v][n]
         /\ output[v] # Absent /\ output'[v] = Absent =>
              \E n \in DOMAIN asides'[v] : asides'[v][n] = output[v].attempt]_<<asides, output>>

\* A synthesis without the PARTIAL label has the report of every voice, save
\* those a reset moved aside while it read or a dead reset left without one.
\* (cmd_synthesize, cmd_reset)
SynthesisAccounts ==
    (synthesis.pc = "written" /\ ~synthesis.labelled) =>
        Voices \ synthesis.included \subseteq disturbed
=============================================================================
