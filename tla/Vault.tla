------------------------------- MODULE Vault --------------------------------
(***************************************************************************)
(* The account vault: a directory of key files, each in the clear under    *)
(* its plain name or encrypted under its sealed name, and the commands     *)
(* that create, seal, open and print them.  A command is a process of its  *)
(* own; several run at once, nothing locks the directory, and each may be  *)
(* killed between any two of its file operations.  A file operation is one *)
(* action, and what has been synced stays (directory entries too).         *)
(***************************************************************************)
EXTENDS Integers, FiniteSets

CONSTANTS
    NumFiles,     \* key files, numbered in the order of discover
    Procs,        \* processes that run commands
    Passwords,    \* what a user may type
    NoOne,        \* not a process
    MaxCommands,  \* bound: commands started
    MaxFaults     \* bound: writes and removals that fail

ASSUME FileAssumption == NumFiles \in Nat
ASSUME PasswordAssumption == "clear" \notin Passwords
ASSUME ProcAssumption == NoOne \notin Procs
ASSUME BoundAssumption == MaxCommands \in Nat /\ MaxFaults \in Nat

Files == 1 .. NumFiles
Forms == {"plain", "sealed"}
Paths == Files \X Forms

\* What a file holds: a key, or bytes that are no key's, in the clear or in an
\* envelope.  A file that is not there holds NoFile.
Clear == "clear"
Torn == 0
Keys == 1 .. NumFiles + MaxCommands
Contents == [key : Keys \cup {Torn}, pw : Passwords \cup {Clear}]
NoFile == [key |-> -1, pw |-> Clear]
Fragment == [key |-> Torn, pw |-> Clear]

VARIABLES
    disk,      \* what is at each path
    writing,   \* the process whose open handle is the file at each path
    job,       \* what each process is doing
    faults,    \* failed writes and removals so far
    commands,  \* commands started so far
    \* History, read by no action:
    kept,      \* keys that were there, or whose create has returned Ok
    unguarded, \* keys that nothing reads back, or that a seal read half-written
    mixed      \* how the password check was passed over, if it was

vars == <<disk, writing, job, faults, commands, kept, unguarded, mixed>>

Idle == [
    cmd   |-> "none",   \* the command
    phase |-> "done",   \* where it is
    num   |-> 0,        \* its number, and so that of the key it may generate
    file  |-> 0,        \* the file it is at
    form  |-> "plain",  \* the form it writes
    todo  |-> {},       \* files it has yet to seal or read
    found |-> {},       \* what discover returned, as far as it is yet to be checked
    pw    |-> Clear,    \* the vault's password; Clear while it has none
    data  |-> NoFile,   \* what it writes
    page  |-> NoFile,   \* the backup page it made last
    read  |-> NoFile]   \* the content that page was made from

Commands == {"create", "seal", "print", "open", "accounts"}
Phases == {"done", "ask", "check", "refuse", "make", "fill", "verify", "look", "remove", "read"}

Plain(f) == disk[<<f, "plain">>]
Sealed(f) == disk[<<f, "sealed">>]

Set(p, j) == job' = [job EXCEPT ![p] = j]

\* The command returns, with an error or not; its locals are gone.
Done(j) == [Idle EXCEPT !.page = j.page, !.read = j.read]

Return(p) == Set(p, Done(job[p]))

-----------------------------------------------------------------------------
(***************************************************************************)
(* Key files and envelopes                                                 *)
(***************************************************************************)
Exists(f) == Plain(f) # NoFile \/ Sealed(f) # NoFile

IsSealed(f) == Plain(f) = NoFile /\ Sealed(f) # NoFile

\* The key files of the directory, in either form.
Discover == {f \in Files : Exists(f)}

First(f, fs) == f \in fs /\ \A g \in fs : f <= g

IsEnvelope(c) == c.pw # Clear

Encrypt(c, pw) == [key |-> c.key, pw |-> pw]

\* decrypt_bytes gives back what was encrypted, and fails for bytes that are no
\* envelope and for a password that is not the envelope's.
Opens(c, pw) == c # NoFile /\ IsEnvelope(c) /\ c.pw = pw

-----------------------------------------------------------------------------
(***************************************************************************)
(* create and seal, up to the first write                                  *)
(***************************************************************************)
Running(p) == job[p].phase # "done"

Begin(p) == ~Running(p) /\ commands < MaxCommands /\ commands' = commands + 1

\* Two sealing commands that run at the same time do not see each other's files.
Overlap(p, form) ==
    mixed' = IF form = "sealed" /\ \E q \in Procs \ {p} :
                    job[q].cmd \in {"create", "seal"} /\ job[q].form = "sealed"
             THEN mixed \cup {"overlap"} ELSE mixed

\* The password is asked for before the key is searched for; with --plain there
\* is none.
StartCreate(p, f, form) ==
    /\ Begin(p) /\ Overlap(p, form) /\ ~Exists(f)
    /\ Set(p, [Idle EXCEPT !.cmd = "create", !.num = commands + 1, !.file = f, !.form = form,
                           !.phase = IF form = "plain" THEN "refuse" ELSE "ask"])
    /\ UNCHANGED <<disk, writing, faults, kept, unguarded>>

\* The list of unsealed files is made here, before the password is typed.
StartSeal(p) ==
    LET unsealed == {f \in Discover : ~IsSealed(f)}
    IN  /\ Begin(p) /\ Overlap(p, "sealed") /\ unsealed # {}
        /\ Set(p, [Idle EXCEPT !.cmd = "seal", !.form = "sealed", !.phase = "ask",
                               !.todo = unsealed, !.found = Discover])
        /\ UNCHANGED <<disk, writing, faults, kept, unguarded>>

\* From here a command writes.
Writes(j) == [j EXCEPT !.phase = IF j.cmd = "seal" THEN "look" ELSE "refuse"]

\* A password is typed.  With --same-password-as it must open that file; create
\* lists its directory only now.
Ask(p, pw, reference) ==
    LET found == IF job[p].cmd = "create" THEN Discover ELSE job[p].found
        j == [job[p] EXCEPT !.pw = pw, !.found = found]
    IN  /\ job[p].phase = "ask"
        /\ IF \E f \in reference : ~Opens(Sealed(f), pw) THEN Return(p)
           ELSE Set(p, IF found = {} THEN Writes(j) ELSE [j EXCEPT !.phase = "check"])
        /\ UNCHANGED <<disk, writing, faults, commands, kept, unguarded, mixed>>

\* Nothing is typed, or not the same twice.
AskFails(p) ==
    /\ job[p].phase = "ask"
    /\ Return(p)
    /\ UNCHANGED <<disk, writing, faults, commands, kept, unguarded, mixed>>

\* Mutant: only the first sealed file is checked.
MutPasses(j, f) == f # 1 \/ (IsSealed(f) => Opens(Sealed(f), j.pw))

\* What is sealed already must open; a file in both forms does not count.
Passes(j, f) == IsSealed(f) => Opens(Sealed(f), j.pw)

Check(p) == \E f \in Files :
    LET j == [job[p] EXCEPT !.found = @ \ {f}]
    IN  /\ job[p].phase = "check" /\ First(f, job[p].found)
        /\ IF ~Passes(j, f) THEN Return(p)
           ELSE Set(p, IF j.found = {} THEN Writes(j) ELSE j)
        /\ mixed' = IF Plain(f) # NoFile /\ Sealed(f) # NoFile
                    THEN mixed \cup {"both forms"} ELSE mixed
        /\ UNCHANGED <<disk, writing, faults, commands, kept, unguarded>>

\* The key is found (generate_account, or a search that may take minutes), then
\* the name is looked up again.
Refuse(p) ==
    LET key == [key |-> NumFiles + job[p].num, pw |-> Clear]
    IN  /\ job[p].phase = "refuse"
        /\ IF Exists(job[p].file) THEN Return(p)
           ELSE Set(p, [job[p] EXCEPT !.phase = "make",
                          !.data = IF job[p].form = "sealed" THEN Encrypt(key, job[p].pw)
                                   ELSE key])
        /\ UNCHANGED <<disk, writing, faults, commands, kept, unguarded, mixed>>

-----------------------------------------------------------------------------
(***************************************************************************)
(* seal, one file at a time                                                *)
(***************************************************************************)

\* On to the next file, or return.
NextFile(p, j) ==
    IF j.todo = {} THEN Set(p, Done(j))
    ELSE Set(p, [j EXCEPT !.phase = IF j.cmd = "seal" THEN "look" ELSE "read"])

\* Keys whose create is still writing the file that is read here.
HalfWritten(f) ==
    {job[q].data.key : q \in {r \in Procs : writing[<<f, "plain">>] = r}}

\* A file that is sealed already is passed over; one that is in both forms, or
\* gone, or an envelope under another password, ends the command.
Look(p) == \E f \in Files :
    LET c == Plain(f)
        j == [job[p] EXCEPT !.todo = @ \ {f}, !.file = f]
    IN  /\ job[p].phase = "look" /\ First(f, job[p].todo)
        /\ \/ /\ c = NoFile /\ Sealed(f) # NoFile
              /\ NextFile(p, j) /\ UNCHANGED unguarded
           \/ /\ IF c = NoFile THEN Sealed(f) = NoFile
                 ELSE Sealed(f) # NoFile \/ (IsEnvelope(c) /\ ~Opens(c, j.pw))
              /\ Return(p) /\ UNCHANGED unguarded
           \/ /\ c # NoFile /\ Sealed(f) = NoFile
              /\ IsEnvelope(c) => Opens(c, j.pw)
              /\ Set(p, [j EXCEPT !.phase = "make",
                           !.data = IF IsEnvelope(c) THEN c ELSE Encrypt(c, j.pw)])
              /\ unguarded' = unguarded \cup HalfWritten(f)
        /\ UNCHANGED <<disk, writing, faults, commands, kept, mixed>>

-----------------------------------------------------------------------------
(***************************************************************************)
(* The writes                                                              *)
(***************************************************************************)
Path(p) == <<job[p].file, job[p].form>>

\* Mutant: a file that is there is truncated.
MutCreateNew(p) == TRUE

CreateNew(p) == disk[Path(p)] = NoFile

\* The file must not be there, and is empty at first.
Make(p) ==
    /\ job[p].phase = "make"
    /\ IF CreateNew(p)
       THEN /\ disk' = [disk EXCEPT ![Path(p)] = Fragment]
            /\ writing' = [writing EXCEPT ![Path(p)] = p]
            /\ Set(p, [job[p] EXCEPT !.phase = "fill"])
       ELSE Return(p) /\ UNCHANGED <<disk, writing>>
    /\ UNCHANGED <<faults, commands, kept, unguarded, mixed>>

\* Mutant: the handle stays open.
MutClose(p) == writing

\* The handle is closed.
Close(p) == [x \in Paths |-> IF writing[x] = p THEN NoOne ELSE writing[x]]

\* write_all and sync_all through the handle; if the file has been removed
\* meanwhile the bytes go nowhere, and nobody is told.
Put(p, c) == disk' = IF writing[Path(p)] = p THEN [disk EXCEPT ![Path(p)] = c] ELSE disk

\* write_new_plain is done; a sealed file is read back first.
Filled(p) ==
    IF job[p].form = "plain"
    THEN Return(p) /\ kept' = kept \cup {job[p].data.key}
    ELSE Set(p, [job[p] EXCEPT !.phase = "verify"]) /\ UNCHANGED kept

Fill(p) ==
    /\ job[p].phase = "fill"
    /\ Put(p, job[p].data) /\ Filled(p)
    /\ writing' = Close(p)
    /\ UNCHANGED <<faults, commands, unguarded, mixed>>

\* The write fails, having written all or not, and the file is left as it is.
FillFails(p) ==
    /\ job[p].phase = "fill" /\ faults < MaxFaults
    /\ faults' = faults + 1
    /\ \E c \in {job[p].data, Fragment} : Put(p, c)
    /\ writing' = Close(p)
    /\ Return(p)
    /\ UNCHANGED <<commands, kept, unguarded, mixed>>

\* The write is reported as done, but the file does not hold what was written.
\* Of a plain file this is never noticed.
FillDamaged(p) ==
    /\ job[p].phase = "fill" /\ faults < MaxFaults
    /\ faults' = faults + 1
    /\ Put(p, Fragment) /\ Filled(p)
    /\ writing' = Close(p)
    /\ unguarded' = IF job[p].form = "plain" THEN unguarded \cup {job[p].data.key}
                    ELSE unguarded
    /\ UNCHANGED <<commands, mixed>>

\* Mutant: the sealed file is not compared with what was written.
MutReadsBack(p) == TRUE

ReadsBack(p) == disk[Path(p)] = job[p].data

\* The sealed file is read back; if it differs it is removed, at best.
Verify(p) ==
    /\ job[p].phase = "verify"
    /\ IF ReadsBack(p)
       THEN /\ IF job[p].cmd = "seal"
               THEN Set(p, [job[p] EXCEPT !.phase = "remove"]) /\ UNCHANGED kept
               ELSE Return(p) /\ kept' = kept \cup {job[p].data.key}
            /\ UNCHANGED disk
       ELSE /\ disk' \in {disk, [disk EXCEPT ![Path(p)] = NoFile]}
            /\ Return(p) /\ UNCHANGED kept
    /\ UNCHANGED <<writing, faults, commands, unguarded, mixed>>

\* remove_file of the plaintext, whatever it holds by now.
Remove(p) ==
    LET x == <<job[p].file, "plain">>
    IN  /\ job[p].phase = "remove"
        /\ IF disk[x] = NoFile THEN Return(p) /\ UNCHANGED <<disk, writing>>
           ELSE /\ disk' = [disk EXCEPT ![x] = NoFile]
                /\ writing' = [writing EXCEPT ![x] = NoOne]
                /\ NextFile(p, job[p])
        /\ UNCHANGED <<faults, commands, kept, unguarded, mixed>>

RemoveFails(p) ==
    /\ job[p].phase = "remove" /\ faults < MaxFaults
    /\ faults' = faults + 1
    /\ Return(p)
    /\ UNCHANGED <<disk, writing, commands, kept, unguarded, mixed>>

-----------------------------------------------------------------------------
(***************************************************************************)
(* open, print and AccountDir                                              *)
(***************************************************************************)

\* open reads one file, print every one of the directory, and an AccountDir the
\* accounts its user names; none of them knows a password at first.
StartRead(p, cmd, fs) ==
    /\ Begin(p)
    /\ CASE cmd = "open" -> Cardinality(fs) = 1
         [] cmd = "print" -> fs = Discover /\ fs # {}
         [] OTHER -> fs # {} /\ fs \subseteq Discover
    /\ Set(p, [Idle EXCEPT !.cmd = cmd, !.phase = "read", !.todo = fs])
    /\ UNCHANGED <<disk, writing, faults, kept, unguarded, mixed>>

\* The plain name comes first, and may hold an envelope.
Source(f) == IF Plain(f) # NoFile THEN Plain(f) ELSE Sealed(f)

\* Mutant: the password typed for one file is not kept when there was one before.
MutRemembered(j, typed) == IF j.pw = Clear THEN typed ELSE j.pw

\* The password that opened a file is the vault's from then on.
Remembered(j, typed) == typed

\* The cached password is tried first; only if there is none or it fails is one
\* typed, and that one must open the file.
Decrypt(j, c, typed) ==
    IF Opens(c, j.pw) THEN j ELSE [j EXCEPT !.pw = Remembered(j, typed)]

\* A sealed file's page is encrypted under the vault's password, a plain one is
\* printed as it is.
BackupPage(j, c) == IF IsEnvelope(c) THEN Encrypt(c, j.pw) ELSE c

ReadFile(p, typed) == \E f \in Files :
    LET c == Source(f)
        j == [job[p] EXCEPT !.todo = @ \ {f}]
        opened == IF IsEnvelope(c) THEN Decrypt(j, c, typed) ELSE j
    IN  /\ job[p].phase = "read" /\ First(f, job[p].todo)
        /\ IF \/ Plain(f) = NoFile /\ ~IsEnvelope(c)
              \/ IsEnvelope(c) /\ ~Opens(c, j.pw) /\ ~Opens(c, typed)
           THEN Return(p)
           ELSE NextFile(p, IF j.cmd = "print"
                            THEN [opened EXCEPT !.page = BackupPage(opened, c), !.read = c]
                            ELSE opened)
        /\ UNCHANGED <<disk, writing, faults, commands, kept, unguarded, mixed>>

-----------------------------------------------------------------------------
\* The process is killed, or the machine stops.
Crash(p) ==
    /\ Running(p)
    /\ Set(p, Idle)
    /\ writing' = Close(p)
    /\ UNCHANGED <<disk, faults, commands, kept, unguarded, mixed>>

ProcStep(p) ==
    \/ \E f \in Files, form \in Forms : StartCreate(p, f, form)
    \/ StartSeal(p)
    \/ \E cmd \in {"open", "print", "accounts"}, fs \in SUBSET Files : StartRead(p, cmd, fs)
    \/ \E pw \in Passwords :
         \/ \E reference \in {{}} \cup {{f} : f \in Files} : Ask(p, pw, reference)
         \/ ReadFile(p, pw)
    \/ AskFails(p) \/ Check(p) \/ Refuse(p) \/ Look(p) \/ Make(p)
    \/ Fill(p) \/ FillFails(p) \/ FillDamaged(p)
    \/ Verify(p) \/ Remove(p) \/ RemoveFails(p) \/ Crash(p)

Next == \E p \in Procs : ProcStep(p)

\* A file is at first absent, in the clear, an envelope under its plain name
\* (bingle_admin writes the same format), or sealed, all of them under pw.
StartContent(f, form, start, pw) ==
    LET key == [key |-> f, pw |-> Clear]
    IN  CASE start = "clear" /\ form = "plain" -> key
          [] start = "envelope" /\ form = "plain" -> Encrypt(key, pw)
          [] start = "sealed" /\ form = "sealed" -> Encrypt(key, pw)
          [] OTHER -> NoFile

Init ==
    /\ \E pw \in Passwords, start \in [Files -> {"absent", "clear", "envelope", "sealed"}] :
         disk = [x \in Paths |-> StartContent(x[1], x[2], start[x[1]], pw)]
    /\ writing = [x \in Paths |-> NoOne]
    /\ job = [p \in Procs |-> Idle]
    /\ faults = 0 /\ commands = 0
    /\ kept = {disk[x].key : x \in {y \in Paths : disk[y] # NoFile}}
    /\ unguarded = {} /\ mixed = {}

Spec == Init /\ [][Next]_vars

-----------------------------------------------------------------------------
(***************************************************************************)
(* Properties                                                              *)
(***************************************************************************)

JobType == [cmd : Commands \cup {"none"}, phase : Phases, num : 0 .. MaxCommands,
            file : Files \cup {0}, form : Forms, todo : SUBSET Files, found : SUBSET Files,
            pw : Passwords \cup {Clear}, data : Contents \cup {NoFile},
            page : Contents \cup {NoFile}, read : Contents \cup {NoFile}]

\* Every variable has its type, and a file is being written by the process that
\* has just created it and by no other.
TypeOK ==
    /\ disk \in [Paths -> Contents \cup {NoFile}]
    /\ writing \in [Paths -> Procs \cup {NoOne}]
    /\ job \in [Procs -> JobType]
    /\ faults \in 0 .. MaxFaults /\ commands \in 0 .. MaxCommands
    /\ kept \subseteq Keys /\ unguarded \subseteq Keys
    /\ mixed \subseteq {"overlap", "both forms"}
    /\ \A x \in Paths, p \in Procs :
         writing[x] = p => job[p].phase = "fill" /\ x = Path(p) /\ disk[x] = Fragment

OnDisk(k) == \E x \in Paths : disk[x].key = k

\* No key is lost: one that was there, or whose create has returned Ok, is whole
\* on disk in some form, whatever fails, is killed or runs at the same time.  The
\* exceptions are a plain file that was damaged as it was written (write_new_plain
\* reads nothing back) and one that a seal read while create --plain was writing it.
KeyKept == \A k \in kept \ unguarded : OnDisk(k)

\* One tree, one password: all that is sealed opens with the same password,
\* unless two sealing commands overlapped or the check passed over a file in both
\* forms (a seal that was cut off before it removed the plaintext leaves one).
OnePassword ==
    mixed = {} =>
        \A f, g \in Files :
            IsEnvelope(Sealed(f)) /\ IsEnvelope(Sealed(g)) => Sealed(f).pw = Sealed(g).pw

\* A backup page is encrypted under the very password that opens the file it was
\* made from, and is in the clear only if the file is.
PageUnderItsPassword == \A p \in Procs : job[p].page = job[p].read

\* The forms in which each key is on disk: the abstract store's state.
FormsOnDisk == [k \in Keys |-> {disk[x].pw : x \in {y \in Paths : disk[y].key = k}}]

Store == INSTANCE KeyStore WITH forms <- FormsOnDisk

\* The vault implements KeyStore: a key gets one sealed form at most, never gets a
\* clear one again, and its clear form goes only when its sealed one is whole.
ImplementsStore == Store!StoreSpec
=============================================================================
