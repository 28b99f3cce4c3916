----------------------- MODULE DispatchManifestProofs -----------------------
(***************************************************************************)
(* Theorems about DispatchManifest, for any number of voices, commands,     *)
(* resets and kills: run.json.lock keeps every command's update, a reset    *)
(* loses no output, and an unlabelled synthesis accounts for every voice.   *)
(***************************************************************************)
EXTENDS DispatchManifest, TLAPS

\* The lock: a command under way holds it, so the copy it loaded is still what
\* is on disk.  UpdatesKept is not inductive without it: a save writes back the
\* entries of all voices, those it did not change included.
Exclusive ==
    \A c \in Commands :
        command[c] # Idle => lock = c /\ command[c].copy = manifest
                                      /\ command[c].voice \in Voices

Shaped ==
    /\ DOMAIN manifest = Voices /\ DOMAIN told = Voices
    /\ DOMAIN command = Commands
    /\ \A c \in Commands : command[c] # Idle =>
         DOMAIN command[c] = {"op", "voice", "copy", "moved"}

LockInv == Shaped /\ Exclusive /\ UpdatesKept

LEMMA LockInvInit == ManifestInit => LockInv
  BY DEF ManifestInit, LockInv, Shaped, Exclusive, UpdatesKept, Entry

\* A command that is not Idle has an operation, so no guard on the operation
\* holds of an idle one.
LEMMA NotIdle == ASSUME NEW c, NEW s, s \in {"complete", "error", "reset"},
                        command[c].op = s
                 PROVE  command[c] # Idle
  BY DEF Idle, None

\* save_manifest: the status told is the status saved, and every other voice
\* has in the copy what it has on disk.
LEMMA SaveKeeps ==
    ASSUME LockInv, NEW c \in Commands, command[c] # Idle, NEW entry, Save(c, entry)
    PROVE  LockInv'
  <1> DEFINE v == command[c].voice
  <1>1. /\ lock = c /\ command[c].copy = manifest /\ v \in Voices
        /\ DOMAIN manifest = Voices /\ DOMAIN told = Voices /\ DOMAIN command = Commands
    BY DEF LockInv, Exclusive, Shaped
  <1>2. /\ manifest' = [manifest EXCEPT ![v] = entry]
        /\ told' = [told EXCEPT ![v] = entry.status]
        /\ command' = [command EXCEPT ![c] = Idle]
    BY <1>1 DEF Save
  <1>3. \A d \in Commands : command'[d] = Idle
    BY <1>1, <1>2 DEF LockInv, Exclusive
  <1>4. UpdatesKept'
    BY <1>1, <1>2 DEF LockInv, UpdatesKept
  <1>5. Shaped'
    BY <1>1, <1>2, <1>3 DEF Shaped
  <1> QED
    BY <1>3, <1>4, <1>5 DEF LockInv, Exclusive

\* A step that leaves the manifest alone, and every command but one that goes
\* idle, keeps the lock.
LEMMA LockInvNext == LockInv /\ [ManifestNext]_manifestVars => LockInv'
  <1> SUFFICES ASSUME LockInv, [ManifestNext]_manifestVars PROVE LockInv'
    OBVIOUS
  <1>1. ASSUME UNCHANGED <<manifest, lock, command, told>> PROVE LockInv'
    BY <1>1 DEF LockInv, Shaped, Exclusive, UpdatesKept
  <1>2. CASE UNCHANGED manifestVars
    BY <1>1, <1>2 DEF manifestVars
  <1>3. ASSUME NEW v \in Voices, NEW a \in 1 .. MaxResets + 1, HarnessWrites(v, a)
        PROVE  LockInv'
    BY <1>1, <1>3 DEF HarnessWrites
  <1>4. ASSUME NEW v \in Voices, SynthesisReads(v) PROVE LockInv'
    BY <1>1, <1>4 DEF SynthesisReads
  <1>5. ASSUME NEW partial \in BOOLEAN, SynthesisLoads(partial) PROVE LockInv'
    BY <1>1, <1>5 DEF SynthesisLoads
  <1>6. CASE SynthesisWrites
    BY <1>1, <1>6 DEF SynthesisWrites
  <1>7. ASSUME NEW c \in Commands, NEW v \in Voices, NEW op \in {"complete", "error", "reset"},
               Load(c, op, v)
        PROVE  LockInv'
    <2> DEFINE loaded == [op |-> op, voice |-> v, copy |-> manifest, moved |-> FALSE]
    <2>1. /\ lock = None /\ lock' = c
          /\ command' = [command EXCEPT ![c] = loaded]
          /\ UNCHANGED <<manifest, told>>
      BY <1>7 DEF Load
    <2>2. \A d \in Commands \ {c} : command'[d] = command[d]
      BY <2>1 DEF LockInv, Shaped
    <2>3. command'[c] = loaded
      BY <2>1 DEF LockInv, Shaped
    <2>4. \A d \in Commands \ {c} : command'[d] = Idle
      BY <2>1, <2>2, CommandsAssumption DEF LockInv, Exclusive
    <2>5. Shaped'
      BY <2>1, <2>3, <2>4 DEF LockInv, Shaped
    <2>6. Exclusive'
      BY <2>1, <2>3, <2>4 DEF Exclusive
    <2>7. UpdatesKept'
      BY <2>1 DEF LockInv, UpdatesKept
    <2> QED
      BY <2>5, <2>6, <2>7 DEF LockInv
  <1>8. ASSUME NEW c \in Commands, Complete(c) \/ Error(c) \/ ResetSaves(c) PROVE LockInv'
    <2>1. command[c] # Idle
      BY <1>8, NotIdle DEF Complete, Error, ResetSaves
    <2>2. PICK entry : Save(c, entry)
      BY <1>8 DEF Complete, Error, ResetSaves
    <2> QED
      BY <2>1, <2>2, SaveKeeps
  <1>9. ASSUME NEW c \in Commands, command[c] # Idle,
               command' = [command EXCEPT ![c] = Idle], UNCHANGED <<manifest, told>>
        PROVE  LockInv'
    BY <1>9 DEF LockInv, Shaped, Exclusive, UpdatesKept
  <1>10. ASSUME NEW c \in Commands, CompleteRefused(c) PROVE LockInv'
    BY <1>9, <1>10, NotIdle DEF CompleteRefused
  <1>11. ASSUME NEW c \in Commands, Crash(c) PROVE LockInv'
    BY <1>9, <1>11 DEF Crash
  <1>12. ASSUME NEW c \in Commands, ResetMoves(c) PROVE LockInv'
    <2>1. command[c] # Idle
      BY <1>12, NotIdle DEF ResetMoves
    <2>2. /\ command' = [command EXCEPT ![c].moved = TRUE]
          /\ UNCHANGED <<manifest, lock, told>>
      BY <1>12 DEF ResetMoves
    <2>3. \A d \in Commands \ {c} : command'[d] = command[d]
      BY <2>2 DEF LockInv, Shaped
    <2>4. command'[c] = [command[c] EXCEPT !.moved = TRUE]
      BY <2>2 DEF LockInv, Shaped
    <2>5. /\ DOMAIN command'[c] = {"op", "voice", "copy", "moved"}
          /\ command'[c].copy = command[c].copy /\ command'[c].voice = command[c].voice
      BY <2>1, <2>4 DEF LockInv, Shaped
    <2> QED
      BY <2>1, <2>2, <2>3, <2>5 DEF LockInv, Shaped, Exclusive, UpdatesKept
  <1> QED
    BY <1>2, <1>3, <1>4, <1>5, <1>6, <1>7, <1>8, <1>10, <1>11, <1>12 DEF ManifestNext

\* No complete, error or reset is undone by a command that ran at the same time
\* or was killed: what the manifest says of a voice is what was last saved for
\* it.  (manifest_lock, load_manifest, save_manifest of fv_run.py)
THEOREM UpdatesAlwaysKept == ManifestSpec => []UpdatesKept
  <1>1. ManifestInit => LockInv
    BY LockInvInit
  <1>2. LockInv /\ [ManifestNext]_manifestVars => LockInv'
    BY LockInvNext
  <1>3. LockInv => UpdatesKept
    BY DEF LockInv
  <1> QED
    BY <1>1, <1>2, <1>3, PTL DEF ManifestSpec

-----------------------------------------------------------------------------
(* What a synthesis and a reset leave of the outputs.                      *)

Statuses == {"pending", "complete", "error"}
Entries == [status : Statuses, history : Seq(Statuses)]
Files == [attempt : Nat, empty : BOOLEAN]
Readings == [pc : {"reading", "written"}, labelled : BOOLEAN, todo : SUBSET Voices, included : SUBSET Voices]

ManifestShaped ==
    /\ manifest \in [Voices -> Entries]
    /\ output \in [Voices -> Files]
    /\ DOMAIN asides = Voices
    /\ synthesis = [pc |-> "idle"] \/ synthesis \in Readings

\* A voice marked complete has its file, or a reset that did not save moved it.
Supported(v) == output[v] # Absent \/ v \in disturbed
CompleteSupported == \A v \in Voices : manifest[v].status = "complete" => Supported(v)

\* A voice an unlabelled synthesis does without was disturbed while it read.
ReadSupported ==
    synthesis.pc # "idle" /\ ~synthesis.labelled =>
        /\ synthesis.pc = "written" => synthesis.todo = {}
        /\ \A v \in Voices \ synthesis.included :
              \/ v \in disturbed
              \/ v \in synthesis.todo /\ output[v] # Absent

OutputInv == LockInv /\ ManifestShaped /\ CompleteSupported /\ ReadSupported

LEMMA OutputInvInit == ManifestInit => OutputInv
  <1> SUFFICES ASSUME ManifestInit PROVE OutputInv
    OBVIOUS
  <1>1. LockInv BY LockInvInit
  <1>2. manifest \in [Voices -> Entries]
    <2>1. Entry("pending", <<>>) \in Entries BY DEF Entry, Entries, Statuses
    <2> QED BY <2>1 DEF ManifestInit
  <1>3. ManifestShaped BY <1>2 DEF ManifestInit, ManifestShaped, Absent, Files
  <1>4. CompleteSupported /\ ReadSupported
    BY DEF ManifestInit, CompleteSupported, ReadSupported, Entry
  <1> QED BY <1>1, <1>3, <1>4 DEF OutputInv

OutputsKept == (ManifestShaped /\ CompleteSupported /\ ReadSupported)'

\* A step that writes no manifest, loses no file and leaves the reader alone.
LEMMA FilesKept ==
    ASSUME OutputInv, UNCHANGED <<manifest, synthesis, asides, disturbed>>,
           output' \in [Voices -> Files],
           \A v \in Voices : output[v] # Absent => output'[v] # Absent
    PROVE  OutputsKept
  <1>1. ManifestShaped' BY DEF OutputInv, ManifestShaped
  <1>2. CompleteSupported' BY DEF OutputInv, CompleteSupported, Supported
  <1>3. ReadSupported' BY DEF OutputInv, ReadSupported
  <1> QED BY <1>1, <1>2, <1>3 DEF OutputsKept

\* save_manifest: only a status of complete needs the file of the voice, and a
\* reset that settles a voice marks it pending.
LEMMA SaveOutputs ==
    ASSUME OutputInv, NEW c \in Commands, command[c] # Idle, NEW entry \in Entries, Save(c, entry),
           entry.status = "complete" => output[command[c].voice] # Absent,
           command[c].op = "reset" => entry.status # "complete"
    PROVE  OutputsKept
  <1> DEFINE v == command[c].voice
  <1>1. command[c].copy = manifest /\ v \in Voices
    BY DEF OutputInv, LockInv, Exclusive
  <1>2. /\ manifest' = [manifest EXCEPT ![v] = entry]
        /\ UNCHANGED <<output, asides, synthesis>>
        /\ disturbed' = disturbed \/ (/\ command[c].op = "reset" /\ synthesis.pc = "idle"
                                      /\ disturbed' = disturbed \ {v})
    BY <1>1 DEF Save
  <1>3. manifest \in [Voices -> Entries] /\ manifest' \in [Voices -> Entries]
    BY <1>1, <1>2 DEF OutputInv, ManifestShaped
  <1>4. ManifestShaped' BY <1>2, <1>3 DEF OutputInv, ManifestShaped
  <1>5. CompleteSupported'
    <2>1. ASSUME NEW w \in Voices, manifest'[w].status = "complete" PROVE Supported(w)'
      <3>1. CASE w = v BY <1>1, <1>2, <1>3, <2>1, <3>1 DEF Supported
      <3>2. CASE w # v
        <4>1. manifest'[w] = manifest[w] BY <1>2, <1>3, <3>2
        <4>2. Supported(w) BY <2>1, <4>1 DEF OutputInv, CompleteSupported
        <4> QED BY <1>2, <3>2, <4>2 DEF Supported
      <3> QED BY <3>1, <3>2
    <2> QED BY <2>1 DEF CompleteSupported
  <1>6. ReadSupported' BY <1>2 DEF OutputInv, ReadSupported
  <1> QED BY <1>4, <1>5, <1>6 DEF OutputsKept

LEMMA ResetMovesOutputs ==
    ASSUME OutputInv, NEW c \in Commands, ResetMoves(c)
    PROVE  OutputsKept
  <1> DEFINE v == command[c].voice
  <1>1. command[c] # Idle BY NotIdle DEF ResetMoves
  <1>2. v \in Voices BY <1>1 DEF OutputInv, LockInv, Exclusive
  <1>3. UNCHANGED <<manifest, synthesis>> BY DEF ResetMoves
  <1>4. CASE output[v] = Absent
    <2>1. UNCHANGED <<output, asides, disturbed>> BY <1>4 DEF ResetMoves
    <2> QED BY <1>3, <2>1, FilesKept DEF OutputInv, ManifestShaped
  <1>5. CASE output[v] # Absent
    <2>1. /\ output' = [output EXCEPT ![v] = Absent] /\ disturbed' = disturbed \union {v}
          /\ DOMAIN asides' = DOMAIN asides
      BY <1>5 DEF ResetMoves
    <2>2. output \in [Voices -> Files] /\ Absent \in Files
      BY DEF OutputInv, ManifestShaped, Absent, Files
    <2>3. \A w \in Voices : w # v => output'[w] = output[w]
      BY <2>1, <2>2
    <2>4. ManifestShaped' BY <1>3, <2>1, <2>2 DEF OutputInv, ManifestShaped
    <2>5. CompleteSupported' BY <1>3, <2>1, <2>3 DEF OutputInv, CompleteSupported, Supported
    <2>6. ReadSupported' BY <1>3, <2>1, <2>3 DEF OutputInv, ReadSupported
    <2> QED BY <2>4, <2>5, <2>6 DEF OutputsKept
  <1> QED BY <1>4, <1>5

LEMMA SynthesisOutputs ==
    ASSUME OutputInv,
           (\E v \in Voices : SynthesisReads(v)) \/ (\E partial \in BOOLEAN : SynthesisLoads(partial))
             \/ SynthesisWrites
    PROVE  OutputsKept
  <1>1. UNCHANGED <<manifest, output, asides, disturbed>>
    BY DEF SynthesisReads, SynthesisLoads, SynthesisWrites
  <1>2. CompleteSupported' BY <1>1 DEF OutputInv, CompleteSupported, Supported
  <1>3. (ManifestShaped /\ ReadSupported)'
    <2>1. ASSUME NEW v \in Voices, SynthesisReads(v) PROVE (ManifestShaped /\ ReadSupported)'
      <3>1. synthesis \in Readings
        <4>1. synthesis.pc = "reading" BY <2>1 DEF SynthesisReads
        <4> QED BY <4>1 DEF OutputInv, ManifestShaped
      <3>2. /\ synthesis.pc = "reading" /\ synthesis'.pc = "reading" /\ synthesis'.labelled = synthesis.labelled
            /\ synthesis'.todo = synthesis.todo \ {v}
            /\ synthesis'.included = IF output[v] # Absent THEN synthesis.included \union {v}
                                                          ELSE synthesis.included
            /\ synthesis' \in Readings
        BY <2>1, <3>1 DEF SynthesisReads, Readings
      <3> QED BY <1>1, <3>2 DEF OutputInv, ManifestShaped, ReadSupported
    <2>2. ASSUME NEW partial \in BOOLEAN, SynthesisLoads(partial) PROVE (ManifestShaped /\ ReadSupported)'
      <3> DEFINE incomplete == {v \in Voices : manifest[v].status # "complete"}
      <3>1. synthesis' = [pc |-> "reading", labelled |-> incomplete # {},
                          todo |-> Voices \ incomplete, included |-> {}]
        BY <2>2 DEF SynthesisLoads
      <3>2. synthesis' \in Readings
        <4>1. (incomplete # {}) \in BOOLEAN OBVIOUS
        <4> QED BY <3>1, <4>1, Zenon DEF Readings
      <3>3. ~synthesis'.labelled => \A v \in Voices : Supported(v) /\ v \in synthesis'.todo
        BY <3>1 DEF OutputInv, CompleteSupported
      <3>4. synthesis'.pc = "reading" /\ synthesis'.included = {} BY <3>1
      <3> QED BY <1>1, <3>2, <3>3, <3>4 DEF OutputInv, ManifestShaped, ReadSupported, Supported
    <2>3. CASE SynthesisWrites
      <3>1. synthesis \in Readings BY <2>3 DEF OutputInv, ManifestShaped, SynthesisWrites
      <3>2. /\ synthesis.pc = "reading" /\ synthesis.todo = {}
            /\ synthesis'.pc = "written" /\ synthesis'.labelled = synthesis.labelled
            /\ synthesis'.todo = {} /\ synthesis'.included = synthesis.included
            /\ synthesis' \in Readings
        BY <2>3, <3>1 DEF SynthesisWrites, Readings
      <3> QED BY <1>1, <3>2 DEF OutputInv, ManifestShaped, ReadSupported
    <2> QED BY <2>1, <2>2, <2>3
  <1> QED BY <1>2, <1>3 DEF OutputsKept

LEMMA OutputInvNext == ASSUME OutputInv, [ManifestNext]_manifestVars PROVE OutputInv'
  <1>1. LockInv' BY LockInvNext DEF OutputInv
  <1>2. OutputsKept
    <2>1. ASSUME NEW v \in Voices, NEW a \in 1 .. MaxResets + 1, HarnessWrites(v, a)
          PROVE  OutputsKept
      <3>1. a \in Nat /\ a # 0 BY CommandsAssumption
      <3>2. PICK empty \in BOOLEAN : output' = [output EXCEPT ![v] = [attempt |-> a, empty |-> empty]]
        BY <2>1 DEF HarnessWrites
      <3>3. [attempt |-> a, empty |-> empty] # Absent
        <4>1. [attempt |-> a, empty |-> empty].attempt # Absent.attempt BY <3>1 DEF Absent
        <4> QED BY <4>1
      <3>4. output \in [Voices -> Files] /\ [attempt |-> a, empty |-> empty] \in Files
        BY <3>1 DEF OutputInv, ManifestShaped, Files
      <3>5. /\ output' \in [Voices -> Files]
            /\ \A w \in Voices : output[w] # Absent => output'[w] # Absent
        BY <3>2, <3>3, <3>4
      <3>6. UNCHANGED <<manifest, synthesis, asides, disturbed>> BY <2>1 DEF HarnessWrites
      <3> QED BY <3>5, <3>6, FilesKept
    <2>2. ASSUME NEW c \in Commands, Complete(c) \/ Error(c) \/ ResetSaves(c) PROVE OutputsKept
      <3>1. command[c] # Idle BY <2>2, NotIdle DEF Complete, Error, ResetSaves
      <3> DEFINE copied == Copied(c)
      <3>2. copied \in Entries
        BY <3>1 DEF OutputInv, LockInv, Exclusive, ManifestShaped, Copied
      <3>3. CASE Complete(c)
        <4>1. PICK entry : entry = [copied EXCEPT !.status = "complete"] OBVIOUS
        <4>2. entry \in Entries /\ Save(c, entry) BY <3>2, <3>3, <4>1 DEF Complete, Entries, Statuses
        <4>3. output[command[c].voice] # Absent /\ command[c].op # "reset" BY <3>3 DEF Complete, Absent
        <4> QED BY <3>1, <4>2, <4>3, SaveOutputs
      <3>4. CASE Error(c)
        <4>1. PICK entry : entry = [copied EXCEPT !.status = "error"] OBVIOUS
        <4>2. /\ entry \in Entries /\ Save(c, entry) /\ entry.status = "error"
          BY <3>2, <3>4, <4>1 DEF Error, Entries, Statuses
        <4> QED BY <3>1, <4>2, SaveOutputs
      <3>5. CASE ResetSaves(c)
        <4>1. PICK entry : entry = Entry("pending", Append(copied.history, copied.status)) OBVIOUS
        <4>2. copied.history \in Seq(Statuses) /\ copied.status \in Statuses
          BY <3>2 DEF Entries
        <4>3. Append(copied.history, copied.status) \in Seq(Statuses) BY <4>2
        <4>4. /\ entry \in Entries /\ Save(c, entry) /\ entry.status = "pending"
          BY <3>5, <4>1, <4>3 DEF ResetSaves, Entry, Entries, Statuses
        <4> QED BY <3>1, <4>4, SaveOutputs
      <3> QED BY <2>2, <3>3, <3>4, <3>5
    <2>3. ASSUME NEW c \in Commands, ResetMoves(c) PROVE OutputsKept
      BY <2>3, ResetMovesOutputs
    <2>4. ASSUME UNCHANGED <<manifest, output, synthesis, asides, disturbed>> PROVE OutputsKept
      BY <2>4, FilesKept DEF OutputInv, ManifestShaped
    <2>5. ASSUME NEW c \in Commands, CompleteRefused(c) \/ Crash(c) PROVE OutputsKept
      BY <2>4, <2>5 DEF CompleteRefused, Crash
    <2>6. ASSUME NEW c \in Commands, NEW v \in Voices, NEW op \in {"complete", "error", "reset"},
                 Load(c, op, v)
          PROVE  OutputsKept
      BY <2>4, <2>6 DEF Load
    <2>7. CASE UNCHANGED manifestVars BY <2>4, <2>7 DEF manifestVars
    <2>8. ASSUME \/ \E v \in Voices : SynthesisReads(v)
                 \/ \E partial \in BOOLEAN : SynthesisLoads(partial)
                 \/ SynthesisWrites
          PROVE  OutputsKept
      BY <2>8, SynthesisOutputs
    <2> QED BY <2>1, <2>2, <2>3, <2>5, <2>6, <2>7, <2>8 DEF ManifestNext
  <1> QED BY <1>1, <1>2 DEF OutputsKept, OutputInv

LEMMA OutputAlways == ManifestSpec => []OutputInv
  BY OutputInvInit, OutputInvNext, PTL DEF ManifestSpec

\* cmd_synthesize loads the manifest once and reads the files after it: a report
\* without the PARTIAL label lacks only voices whose file a reset moved aside, dead
\* or while it read.
THEOREM SynthesisAlwaysAccounts == ManifestSpec => []SynthesisAccounts
  <1>1. OutputInv => SynthesisAccounts
    BY DEF OutputInv, ReadSupported, SynthesisAccounts
  <1> QED BY <1>1, OutputAlways, PTL

\* cmd_reset renames an output under the number of its attempt, past every number
\* the saved history counts; no other step moves or removes one.
THEOREM AttemptsAlwaysKept == ManifestSpec => AttemptsKept
  <1> DEFINE Kept ==
        \A v \in Voices :
          /\ \A n \in DOMAIN asides[v] \intersect 1 .. Len(manifest[v].history) :
               n \in DOMAIN asides'[v] /\ asides'[v][n] = asides[v][n]
          /\ output[v] # Absent /\ output'[v] = Absent =>
               \E n \in DOMAIN asides'[v] : asides'[v][n] = output[v].attempt
  <1>1. ASSUME OutputInv, [ManifestNext]_manifestVars PROVE [Kept]_<<asides, output>>
    <2>1. ASSUME UNCHANGED asides, \A v \in Voices : output[v] # Absent => output'[v] # Absent
          PROVE  Kept
      BY <2>1
    <2>2. ASSUME NEW v \in Voices, NEW a \in 1 .. MaxResets + 1, HarnessWrites(v, a) PROVE Kept
      <3>1. a # 0 BY CommandsAssumption
      <3>2. PICK empty \in BOOLEAN : output' = [output EXCEPT ![v] = [attempt |-> a, empty |-> empty]]
        BY <2>2 DEF HarnessWrites
      <3>3. [attempt |-> a, empty |-> empty] # Absent
        <4>1. [attempt |-> a, empty |-> empty].attempt # Absent.attempt BY <3>1 DEF Absent
        <4> QED BY <4>1
      <3>4. output \in [Voices -> Files] BY <1>1 DEF OutputInv, ManifestShaped
      <3>5. \A w \in Voices : output[w] # Absent => output'[w] # Absent
        BY <3>2, <3>3, <3>4
      <3>6. asides' = asides BY <2>2 DEF HarnessWrites
      <3> QED BY <2>1, <3>5, <3>6
    <2>3. ASSUME NEW c \in Commands, ResetMoves(c), ~UNCHANGED <<asides, output>> PROVE Kept
      <3> DEFINE v == command[c].voice
                 n == Len(Copied(c).history) + 1
      <3>1. command[c] # Idle BY <2>3, NotIdle DEF ResetMoves
      <3>2. v \in Voices /\ Copied(c) = manifest[v]
        BY <1>1, <3>1 DEF OutputInv, LockInv, Exclusive, Copied
      <3>3. n = Len(manifest[v].history) + 1 /\ Len(manifest[v].history) \in Nat
        <4>1. manifest[v] \in Entries BY <1>1, <3>2 DEF OutputInv, ManifestShaped
        <4>2. manifest[v].history \in Seq(Statuses) BY <4>1 DEF Entries
        <4> QED BY <3>2, <4>2
      <3>4. n \notin 1 .. Len(manifest[v].history) BY <3>3
      <3> HIDE DEF n
      <3>5. /\ asides' = [asides EXCEPT ![v] = [i \in DOMAIN @ \union {n} |->
                                  IF i = n THEN output[v].attempt ELSE @[i]]]
            /\ output' = [output EXCEPT ![v] = Absent]
        BY <2>3 DEF ResetMoves, n
      <3>6. DOMAIN asides = Voices /\ output \in [Voices -> Files]
        BY <1>1 DEF OutputInv, ManifestShaped
      <3>7. \A w \in Voices : w # v => asides'[w] = asides[w] /\ output'[w] = output[w]
        BY <3>5, <3>6
      <3>8. asides'[v] = [i \in DOMAIN asides[v] \union {n} |->
                             IF i = n THEN output[v].attempt ELSE asides[v][i]]
        BY <3>2, <3>5, <3>6
      <3> QED BY <3>2, <3>4, <3>7, <3>8
    <2>4. ASSUME NEW c \in Commands,
                 Complete(c) \/ CompleteRefused(c) \/ Error(c) \/ ResetSaves(c) \/ Crash(c)
          PROVE  UNCHANGED <<asides, output>>
      BY <2>4 DEF Complete, CompleteRefused, Error, ResetSaves, Crash, Save
    <2>5. ASSUME NEW c \in Commands, NEW v \in Voices, NEW op \in {"complete", "error", "reset"},
                 Load(c, op, v)
          PROVE  UNCHANGED <<asides, output>>
      BY <2>5 DEF Load
    <2>6. ASSUME \/ \E v \in Voices : SynthesisReads(v)
                 \/ \E partial \in BOOLEAN : SynthesisLoads(partial)
                 \/ SynthesisWrites
          PROVE  UNCHANGED <<asides, output>>
      BY <2>6 DEF SynthesisReads, SynthesisLoads, SynthesisWrites
    <2>7. CASE UNCHANGED manifestVars BY <2>7 DEF manifestVars
    <2> HIDE DEF Kept
    <2> QED BY <1>1, <2>2, <2>3, <2>4, <2>5, <2>6, <2>7 DEF ManifestNext
  <1> QED BY <1>1, OutputAlways, PTL DEF ManifestSpec, AttemptsKept
=============================================================================
