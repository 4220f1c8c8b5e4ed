----------------------------- MODULE VaultProofs ----------------------------
(***************************************************************************)
(* Proofs about Vault, for any number of files, processes and passwords.   *)
(***************************************************************************)
EXTENDS Vault, TLAPS

-----------------------------------------------------------------------------
(***************************************************************************)
(* Type correctness                                                        *)
(***************************************************************************)

\* What a command knows by its phase: its kind, the file it is at, the password it
\* seals under and what it writes.
Ready(j, n) ==
    /\ j.phase \in {"look", "make", "fill", "verify", "remove"} => j.cmd \in {"create", "seal"}
    /\ j.phase = "refuse" => j.cmd = "create"
    /\ j.phase \in {"look", "remove"} => j.cmd = "seal"
    /\ j.phase = "verify" => j.form = "sealed"
    /\ j.cmd = "seal" => j.form = "sealed"
    /\ j.phase \in {"refuse", "make", "fill", "verify", "remove"} => j.file \in Files
    /\ j.phase \in {"make", "fill", "verify", "remove"} =>
         j.data \in Contents /\ j.data.pw = IF j.form = "sealed" THEN j.pw ELSE Clear
    /\ j.cmd = "create" => j.num \in 1 .. n /\ j.file \in Files
    /\ j.cmd = "create" /\ j.phase \in {"make", "fill", "verify"} => j.data.key = NumFiles + j.num
    /\ j.form = "sealed" /\ j.phase \in {"check", "look", "refuse", "make", "fill", "verify", "remove"} =>
         j.pw \in Passwords
    /\ j.phase \in {"ask", "check"} => j.cmd \in {"create", "seal"} /\ j.form = "sealed"
    /\ j.phase = "read" => j.cmd \in {"open", "print", "accounts"} /\ j.form = "plain"

FilesType ==
    /\ disk \in [Paths -> Contents \cup {NoFile}]
    /\ writing \in [Paths -> Procs \cup {NoOne}]

HistoryType ==
    /\ kept \subseteq Keys /\ unguarded \subseteq Keys
    /\ mixed \subseteq {"overlap", "both forms"}

CountsType == faults \in 0 .. MaxFaults /\ commands \in 0 .. MaxCommands

JobsReady ==
    /\ job \in [Procs -> JobType]
    /\ \A p \in Procs : Ready(job[p], commands)

\* The open handle is that of the process that has just created the file.
Handles ==
    \A x \in Paths, p \in Procs :
        writing[x] = p => job[p].phase = "fill" /\ x = Path(p) /\ disk[x] = Fragment

\* A command is busy with a sealed file from its creation until the plaintext is
\* gone; the file is there, and no other command is busy with it.
Busy(j) == j.form = "sealed" /\ j.phase \in {"fill", "verify", "remove"}

Apart ==
    \A p \in Procs : Busy(job[p]) =>
        /\ Sealed(job[p].file) # NoFile
        /\ \A q \in Procs \ {p} : Busy(job[q]) => job[q].file # job[p].file

TypeInv == FilesType /\ HistoryType /\ CountsType /\ JobsReady /\ Handles /\ Apart

\* The numbers the types are built from.
LEMMA Bounds ==
    /\ NumFiles \in Nat /\ MaxCommands \in Nat /\ MaxFaults \in Nat
    /\ 0 \in 0 .. MaxCommands /\ Files \subseteq Nat
    /\ Fragment \in Contents /\ NoFile \notin Contents /\ Fragment # NoFile
    /\ Clear \notin Passwords
<1>1. NumFiles \in Nat /\ MaxCommands \in Nat /\ MaxFaults \in Nat
  BY FileAssumption, BoundAssumption
<1>2. 0 \in 0 .. MaxCommands /\ Files \subseteq Nat
  BY <1>1 DEF Files
<1>3. -1 \notin Keys \cup {Torn} /\ Torn \notin Keys
  BY <1>1 DEF Keys, Torn
<1>4. Fragment \in Contents /\ NoFile \notin Contents /\ Fragment # NoFile
  BY <1>3 DEF Fragment, NoFile, Contents, Torn
<1> QED
  BY <1>1, <1>2, <1>4, PasswordAssumption DEF Clear

\* A process that runs nothing has the type of a job, and is ready for anything.
LEMMA IdleReady == ASSUME NEW n PROVE Idle \in JobType /\ Ready(Idle, n) /\ Idle.phase = "done"
<1>1. Idle \in JobType
  BY Bounds DEF Idle, JobType, Commands, Phases, Forms, Files
<1> QED
  BY <1>1 DEF Ready, Idle

\* So has one whose command has returned.
LEMMA DoneReady ==
    ASSUME NEW j \in JobType, NEW n
    PROVE  /\ Done(j) \in JobType /\ Ready(Done(j), n)
           /\ Done(j).phase = "done" /\ Done(j).cmd = "none"
<1>1. j.page \in Contents \cup {NoFile} /\ j.read \in Contents \cup {NoFile}
  BY DEF JobType
<1>2. Done(j) \in JobType
  BY <1>1, IdleReady DEF Done, JobType
<1>3. /\ Done(j).phase = Idle.phase /\ Done(j).cmd = Idle.cmd /\ Done(j).form = Idle.form
  BY IdleReady DEF Done, JobType
<1>4. Idle.phase = "done" /\ Idle.cmd = "none" /\ Idle.form = "plain"
  BY DEF Idle
<1> QED
  BY <1>2, <1>3, <1>4 DEF Ready

\* A step of one process leaves the others ready.
LEMMA SetReady ==
    ASSUME JobsReady, CountsType, commands \in 0 .. MaxCommands, commands' \in 0 .. MaxCommands,
           commands <= commands', NEW p \in Procs, NEW k \in JobType, Ready(k, commands'), Set(p, k)
    PROVE  JobsReady' /\ job'[p] = k /\ \A q \in Procs \ {p} : job'[q] = job[q]
<1>1. /\ job' \in [Procs -> JobType] /\ job'[p] = k /\ \A q \in Procs \ {p} : job'[q] = job[q]
  BY DEF Set, JobsReady
<1>2. ASSUME NEW q \in Procs \ {p} PROVE Ready(job'[q], commands')
  <2>1. job'[q] = job[q] /\ Ready(job[q], commands)
    BY <1>1 DEF JobsReady
  <2>2. \A m : m \in 1 .. commands => m \in 1 .. commands'
    OBVIOUS
  <2> QED
    BY <2>1, <2>2 DEF Ready
<1> QED
  BY <1>1, <1>2 DEF JobsReady

\* No file changes hands while a process does something else than fill one.
LEMMA HandlesKept ==
    ASSUME Handles, UNCHANGED <<disk, writing>>, NEW p \in Procs, job[p].phase # "fill",
           \A q \in Procs \ {p} : job'[q] = job[q]
    PROVE  Handles'
<1> SUFFICES ASSUME NEW x \in Paths, NEW q \in Procs, writing'[x] = q
             PROVE  job'[q].phase = "fill" /\ x = Path(q)' /\ disk'[x] = Fragment
  BY DEF Handles
<1>1. job[q].phase = "fill" /\ x = Path(q) /\ disk[x] = Fragment
  BY DEF Handles
<1>2. q # p
  BY <1>1
<1> QED
  BY <1>1, <1>2 DEF Path

\* A step that writes nothing keeps the invariant if it leaves its own job ready.
LEMMA QuietStep ==
    ASSUME TypeInv, UNCHANGED <<disk, writing, faults, kept>>,
           commands' \in 0 .. MaxCommands, commands <= commands',
           unguarded' \subseteq Keys, mixed' \subseteq {"overlap", "both forms"},
           NEW p \in Procs, job[p].phase # "fill",
           NEW k \in JobType, Ready(k, commands'), Set(p, k), ~Busy(k), k.phase # "fill"
    PROVE  TypeInv'
<1>1. JobsReady' /\ job'[p] = k /\ \A q \in Procs \ {p} : job'[q] = job[q]
  BY SetReady DEF TypeInv, CountsType
<1>2. Handles'
  BY <1>1, HandlesKept DEF TypeInv
<1>3. Apart'
  BY <1>1 DEF TypeInv, Apart, Sealed
<1> QED
  BY <1>1, <1>2, <1>3 DEF TypeInv, FilesType, HistoryType, CountsType

LEMMA SameCount == \A n \in 0 .. MaxCommands : n <= n
BY BoundAssumption

\* The same, when the command returns.
LEMMA QuietReturn ==
    ASSUME TypeInv, UNCHANGED <<disk, writing, faults, kept, commands>>,
           unguarded' \subseteq Keys, mixed' \subseteq {"overlap", "both forms"},
           NEW p \in Procs, job[p].phase # "fill", Return(p)
    PROVE  TypeInv'
<1>1. job[p] \in JobType
  BY DEF TypeInv, JobsReady
<1>2. /\ Done(job[p]) \in JobType /\ Ready(Done(job[p]), commands')
      /\ ~Busy(Done(job[p])) /\ Done(job[p]).phase # "fill"
  BY <1>1, DoneReady DEF Busy
<1>3. commands \in 0 .. MaxCommands /\ commands' = commands
  BY DEF TypeInv, CountsType
<1>4. commands' \in 0 .. MaxCommands /\ commands <= commands'
  BY <1>3, SameCount, Zenon
<1> QED
  BY <1>2, <1>4, QuietStep DEF Return

\* Starting a command.
LEMMA StartType ==
    ASSUME TypeInv, NEW p \in Procs,
           \/ \E f \in Files, form \in Forms : StartCreate(p, f, form)
           \/ StartSeal(p)
           \/ \E cmd \in {"open", "print", "accounts"}, fs \in SUBSET Files : StartRead(p, cmd, fs)
    PROVE  TypeInv'
<1>0. commands \in Nat /\ commands \in 0 .. MaxCommands
  BY Bounds DEF TypeInv, CountsType
<1>1. ASSUME Begin(p)
      PROVE  /\ commands' \in 0 .. MaxCommands /\ commands <= commands'
             /\ commands + 1 \in 1 .. commands' /\ commands + 1 \in 0 .. MaxCommands
             /\ job[p].phase # "fill"
  BY <1>0, <1>1, Bounds DEF Begin, Running
<1>2. ASSUME NEW form, Overlap(p, form) PROVE mixed' \subseteq {"overlap", "both forms"}
  BY <1>2 DEF Overlap, TypeInv, HistoryType
<1>3. ASSUME NEW f \in Files, NEW form \in Forms, StartCreate(p, f, form) PROVE TypeInv'
  <2> DEFINE phase == IF form = "plain" THEN "refuse" ELSE "ask"
             k == [Idle EXCEPT !.cmd = "create", !.num = commands + 1, !.file = f, !.form = form,
                               !.phase = phase]
  <2>1. Set(p, k) /\ Begin(p) /\ Overlap(p, form)
    BY <1>3 DEF StartCreate
  <2>2. /\ form = "plain" \/ form = "sealed"
        /\ form = "plain" => phase = "refuse"
        /\ form = "sealed" => phase = "ask"
    <3>1. form = "plain" \/ form = "sealed"
      BY DEF Forms
    <3> QED
      BY <3>1
  <2>p. phase \in {"refuse", "ask"}
    OBVIOUS
  <2> HIDE DEF phase
  <2>3. k \in JobType /\ k.cmd = "create" /\ k.num = commands + 1 /\ k.file = f /\ k.form = form
        /\ k.phase = phase
    <3>1. commands + 1 \in 0 .. MaxCommands
      BY <1>1, <2>1
    <3>2. "create" \in Commands /\ phase \in Phases /\ f \in Files \cup {0}
      BY <2>p DEF Commands, Phases
    <3> QED
      BY <3>1, <3>2, IdleReady DEF JobType
  <2> HIDE DEF k
  <2>4. Ready(k, commands') /\ ~Busy(k) /\ k.phase # "fill"
    BY <1>1, <2>1, <2>2, <2>3 DEF Ready, Forms, Busy
  <2> QED
    BY <1>1, <1>2, <1>3, <2>1, <2>3, <2>4, QuietStep DEF StartCreate, TypeInv, HistoryType
<1>4. CASE StartSeal(p)
  <2> DEFINE unsealed == {f \in Discover : ~IsSealed(f)}
             k == [Idle EXCEPT !.cmd = "seal", !.form = "sealed", !.phase = "ask",
                               !.todo = unsealed, !.found = Discover]
  <2>1. Set(p, k) /\ Begin(p) /\ Overlap(p, "sealed")
    BY <1>4 DEF StartSeal
  <2>2. unsealed \in SUBSET Files /\ Discover \in SUBSET Files
    BY DEF Discover
  <2> HIDE DEF unsealed
  <2>3. k \in JobType /\ k.cmd = "seal" /\ k.form = "sealed" /\ k.phase = "ask"
    BY <2>2, IdleReady DEF JobType, Commands, Phases, Forms
  <2> HIDE DEF k
  <2>4. Ready(k, commands') /\ ~Busy(k) /\ k.phase # "fill"
    BY <2>3 DEF Ready, Busy
  <2> QED
    BY <1>1, <1>2, <1>4, <2>1, <2>3, <2>4, QuietStep DEF StartSeal, TypeInv, HistoryType
<1>5. ASSUME NEW cmd \in {"open", "print", "accounts"}, NEW fs \in SUBSET Files, StartRead(p, cmd, fs)
      PROVE  TypeInv'
  <2> DEFINE k == [Idle EXCEPT !.cmd = cmd, !.phase = "read", !.todo = fs]
  <2>1. Set(p, k) /\ Begin(p)
    BY <1>5 DEF StartRead
  <2>2. k \in JobType /\ k.cmd = cmd /\ k.phase = "read" /\ k.form = Idle.form
    BY IdleReady DEF JobType, Commands, Phases, Forms
  <2> HIDE DEF k
  <2>3. Ready(k, commands') /\ ~Busy(k) /\ k.phase # "fill"
    BY <2>2 DEF Ready, Idle, Busy
  <2> QED
    BY <1>1, <1>5, <2>1, <2>2, <2>3, QuietStep DEF StartRead, TypeInv, HistoryType
<1> QED
  BY <1>3, <1>4, <1>5

\* A step that leaves the counts alone, too.
LEMMA QuietSet ==
    ASSUME TypeInv, UNCHANGED <<disk, writing, faults, kept, commands>>,
           unguarded' \subseteq Keys, mixed' \subseteq {"overlap", "both forms"},
           NEW p \in Procs, job[p].phase # "fill",
           NEW k \in JobType, Ready(k, commands), Set(p, k), ~Busy(k), k.phase # "fill"
    PROVE  TypeInv'
<1>1. commands \in 0 .. MaxCommands /\ commands' = commands
  BY DEF TypeInv, CountsType
<1>2. commands' \in 0 .. MaxCommands /\ commands <= commands' /\ Ready(k, commands')
  BY <1>1, SameCount, Zenon
<1> QED
  BY <1>2, QuietStep

\* Going on to the next file, or returning.
LEMMA NextFileReady ==
    ASSUME NEW p, NEW j \in JobType, NEW n, Ready(j, n),
           j.cmd = "seal" => j.pw \in Passwords,
           j.cmd # "seal" => j.cmd \in {"open", "print", "accounts"} /\ j.form = "plain",
           NextFile(p, j)
    PROVE  \E k \in JobType : /\ Ready(k, n) /\ Set(p, k)
                              /\ k.phase \in {"done", "look", "read"}
                              /\ ~Busy(k) /\ k.cmd \in {"none", j.cmd}
<1>1. CASE j.todo = {}
  BY <1>1, DoneReady DEF NextFile, Busy
<1>2. CASE j.todo # {}
  <2> DEFINE phase == IF j.cmd = "seal" THEN "look" ELSE "read"
             k == [j EXCEPT !.phase = phase]
  <2>1. Set(p, k)
    BY <1>2 DEF NextFile
  <2>2. /\ phase \in {"look", "read"} /\ phase \in Phases
        /\ phase = "look" => j.cmd = "seal"
        /\ phase = "read" => j.cmd # "seal"
    BY DEF Phases
  <2> HIDE DEF phase
  <2>3. /\ k \in JobType /\ k.phase = phase /\ k.cmd = j.cmd /\ k.form = j.form /\ k.num = j.num
        /\ k.file = j.file /\ k.pw = j.pw /\ k.data = j.data
    BY <2>2 DEF JobType
  <2> QED
    BY <2>1, <2>2, <2>3 DEF Ready, Busy
<1> QED
  BY <1>1, <1>2

\* The password, the check of what is sealed, and the search for the key.
LEMMA AskType ==
    ASSUME TypeInv, NEW p \in Procs,
           \/ \E pw \in Passwords, reference \in {{}} \cup {{f} : f \in Files} : Ask(p, pw, reference)
           \/ AskFails(p)
    PROVE  TypeInv'
<1>1. ASSUME NEW pw \in Passwords, NEW reference, Ask(p, pw, reference) PROVE TypeInv'
  <2> DEFINE found == IF job[p].cmd = "create" THEN Discover ELSE job[p].found
             j == [job[p] EXCEPT !.pw = pw, !.found = found]
             w == [j EXCEPT !.phase = IF j.cmd = "seal" THEN "look" ELSE "refuse"]
             c == [j EXCEPT !.phase = "check"]
  <2>0. /\ job[p].phase = "ask" /\ job[p] \in JobType /\ Ready(job[p], commands)
        /\ unguarded' \subseteq Keys /\ mixed' \subseteq {"overlap", "both forms"}
        /\ UNCHANGED <<disk, writing, faults, kept, commands>>
    BY <1>1 DEF Ask, TypeInv, JobsReady, HistoryType
  <2>1. CASE Return(p)
    BY <2>0, <2>1, QuietReturn
  <2>2. CASE Set(p, w) \/ Set(p, c)
    <3>1. found \in SUBSET Files
      BY <2>0 DEF Discover, JobType
    <3> HIDE DEF found
    <3>2. /\ j \in JobType /\ j.pw = pw /\ j.cmd = job[p].cmd /\ j.form = job[p].form
          /\ j.num = job[p].num /\ j.file = job[p].file /\ j.phase = "ask"
      BY <2>0, <3>1 DEF JobType
    <3> HIDE DEF j
    <3>3. /\ c \in JobType /\ c.pw = pw /\ c.cmd = job[p].cmd /\ c.form = job[p].form
          /\ c.num = job[p].num /\ c.file = job[p].file /\ c.phase = "check"
      BY <3>2 DEF JobType, Phases
    <3> DEFINE next == IF j.cmd = "seal" THEN "look" ELSE "refuse"
    <3>n. /\ next \in Phases /\ next \in {"look", "refuse"}
          /\ job[p].cmd = "seal" => next = "look"
          /\ job[p].cmd # "seal" => next = "refuse"
      BY <3>2 DEF Phases
    <3>w. w = [j EXCEPT !.phase = next]
      OBVIOUS
    <3> HIDE DEF next, w
    <3>4. /\ w \in JobType /\ w.pw = pw /\ w.cmd = job[p].cmd /\ w.form = job[p].form
          /\ w.num = job[p].num /\ w.file = job[p].file /\ w.phase = next
      BY <3>2, <3>n, <3>w DEF JobType
    <3> HIDE DEF c
    <3>5. Ready(c, commands) /\ ~Busy(c) /\ c.phase # "fill"
      BY <2>0, <3>3 DEF Ready, Busy
    <3>6. Ready(w, commands) /\ ~Busy(w) /\ w.phase # "fill"
      BY <2>0, <3>4, <3>n DEF Ready, Busy
    <3> QED
      BY <2>0, <2>2, <3>3, <3>4, <3>5, <3>6, QuietSet
  <2> QED
    BY <1>1, <2>1, <2>2 DEF Ask, Writes
<1>2. ASSUME AskFails(p) PROVE TypeInv'
  BY <1>2, QuietReturn DEF AskFails, TypeInv, HistoryType
<1> QED
  BY <1>1, <1>2

LEMMA CheckType == ASSUME TypeInv, NEW p \in Procs, Check(p) PROVE TypeInv'
<1>1. PICK f \in Files :
        LET j == [job[p] EXCEPT !.found = @ \ {f}]
        IN  /\ job[p].phase = "check"
            /\ Return(p) \/ Set(p, Writes(j)) \/ Set(p, j)
  BY DEF Check
<1> DEFINE j == [job[p] EXCEPT !.found = job[p].found \ {f}]
           w == [j EXCEPT !.phase = IF j.cmd = "seal" THEN "look" ELSE "refuse"]
<1>2. /\ job[p].phase = "check" /\ job[p] \in JobType /\ Ready(job[p], commands)
      /\ unguarded' \subseteq Keys /\ mixed' \subseteq {"overlap", "both forms"}
      /\ UNCHANGED <<disk, writing, faults, kept, commands>>
  BY <1>1 DEF Check, TypeInv, JobsReady, HistoryType
<1>3. /\ j \in JobType /\ j.pw = job[p].pw /\ j.cmd = job[p].cmd /\ j.form = job[p].form
      /\ j.num = job[p].num /\ j.file = job[p].file /\ j.phase = "check"
  BY <1>2 DEF JobType
<1>4. Ready(j, commands) /\ ~Busy(j) /\ j.phase # "fill"
  BY <1>2, <1>3 DEF Ready, Busy
<1>5. Return(p) \/ Set(p, w) \/ Set(p, j)
  BY <1>1 DEF Writes
<1> HIDE DEF j
<1> DEFINE next == IF j.cmd = "seal" THEN "look" ELSE "refuse"
<1>n. /\ next \in Phases /\ next \in {"look", "refuse"}
      /\ job[p].cmd = "seal" => next = "look"
      /\ job[p].cmd # "seal" => next = "refuse"
  BY <1>3 DEF Phases
<1>w. w = [j EXCEPT !.phase = next]
  OBVIOUS
<1> HIDE DEF w, next
<1>6. /\ w \in JobType /\ w.pw = job[p].pw /\ w.cmd = job[p].cmd /\ w.form = job[p].form
      /\ w.num = job[p].num /\ w.file = job[p].file /\ w.phase = next
  BY <1>3, <1>n, <1>w DEF JobType
<1>7. Ready(w, commands) /\ ~Busy(w) /\ w.phase # "fill"
  BY <1>2, <1>6, <1>n DEF Ready, Busy
<1> QED
  BY <1>2, <1>3, <1>4, <1>5, <1>6, <1>7, QuietReturn, QuietSet

\* The number of a command gives a key.
LEMMA KeyBound ==
    \A c \in 0 .. MaxCommands : \A n \in 1 .. c :
        NumFiles + n \in Keys /\ n \in 0 .. MaxCommands /\ NumFiles + n # Torn
BY FileAssumption, BoundAssumption DEF Keys, Torn

LEMMA RefuseType == ASSUME TypeInv, NEW p \in Procs, Refuse(p) PROVE TypeInv'
<1> DEFINE key == [key |-> NumFiles + job[p].num, pw |-> Clear]
           data == IF job[p].form = "sealed" THEN Encrypt(key, job[p].pw) ELSE key
           k == [job[p] EXCEPT !.phase = "make", !.data = data]
<1>1. /\ job[p].phase = "refuse" /\ job[p] \in JobType /\ Ready(job[p], commands)
      /\ unguarded' \subseteq Keys /\ mixed' \subseteq {"overlap", "both forms"}
      /\ UNCHANGED <<disk, writing, faults, kept, commands>>
      /\ commands \in 0 .. MaxCommands
  BY DEF Refuse, TypeInv, JobsReady, HistoryType, CountsType
<1>2. CASE Return(p)
  BY <1>1, <1>2, QuietReturn
<1>3. CASE Set(p, k)
  <2>1. job[p].cmd = "create" /\ job[p].num \in 1 .. commands
    BY <1>1 DEF Ready
  <2>2. NumFiles + job[p].num \in Keys
    BY <1>1, <2>1, KeyBound, Zenon
  <2>3. /\ data.key = NumFiles + job[p].num
        /\ data.pw = IF job[p].form = "sealed" THEN job[p].pw ELSE Clear
        /\ data \in Contents
    BY <1>1, <2>2 DEF Contents, Encrypt, JobType
  <2> HIDE DEF data
  <2>4. /\ k \in JobType /\ k.pw = job[p].pw /\ k.cmd = job[p].cmd /\ k.form = job[p].form
        /\ k.num = job[p].num /\ k.file = job[p].file /\ k.phase = "make" /\ k.data = data
    BY <1>1, <2>3 DEF JobType, Phases
  <2> HIDE DEF k
  <2>5. Ready(k, commands) /\ ~Busy(k) /\ k.phase # "fill"
    BY <1>1, <2>1, <2>3, <2>4 DEF Ready, Busy
  <2> QED
    BY <1>1, <1>3, <2>4, <2>5, QuietSet
<1> QED
  BY <1>2, <1>3 DEF Refuse

\* open, print and an AccountDir go on to the next file, or return.
LEMMA ReadFileJob ==
    ASSUME TypeInv, NEW p \in Procs, NEW typed \in Passwords, ReadFile(p, typed)
    PROVE  \E k \in JobType : /\ Ready(k, commands) /\ Set(p, k) /\ ~Busy(k)
                              /\ k.phase \in {"done", "look", "read"}
                              /\ k.cmd \notin {"create", "seal"}
<1>1. PICK f \in Files :
        LET c == Source(f)
            j == [job[p] EXCEPT !.todo = @ \ {f}]
            opened == IF IsEnvelope(c) THEN Decrypt(j, c, typed) ELSE j
        IN  /\ job[p].phase = "read"
            /\ \/ Return(p)
               \/ NextFile(p, IF j.cmd = "print"
                              THEN [opened EXCEPT !.page = BackupPage(opened, c), !.read = c]
                              ELSE opened)
  BY DEF ReadFile
<1> DEFINE c == Source(f)
           j == [job[p] EXCEPT !.todo = job[p].todo \ {f}]
           opened == IF IsEnvelope(c) THEN Decrypt(j, c, typed) ELSE j
<1>2. /\ job[p].phase = "read" /\ job[p] \in JobType /\ Ready(job[p], commands)
      /\ unguarded' \subseteq Keys /\ mixed' \subseteq {"overlap", "both forms"}
      /\ UNCHANGED <<disk, writing, faults, kept, commands>>
  BY <1>1 DEF ReadFile, TypeInv, JobsReady, HistoryType
<1>3. c \in Contents \cup {NoFile}
  BY DEF Source, Plain, Sealed, Paths, Forms, TypeInv, FilesType
<1>4. /\ j \in JobType /\ j.pw = job[p].pw /\ j.cmd = job[p].cmd /\ j.form = job[p].form
      /\ j.num = job[p].num /\ j.file = job[p].file /\ j.phase = "read"
  BY <1>2 DEF JobType
<1> HIDE DEF c, j
<1>5. /\ opened \in JobType /\ opened.cmd = job[p].cmd /\ opened.form = job[p].form
      /\ opened.num = job[p].num /\ opened.file = job[p].file /\ opened.phase = "read"
  BY <1>4 DEF JobType, Decrypt, Remembered
<1> HIDE DEF opened
<1>6. BackupPage(opened, c) \in Contents \cup {NoFile}
  <2>1. CASE IsEnvelope(c)
    <3>1. c \in Contents
      BY <1>3, <2>1 DEF IsEnvelope, NoFile
    <3> QED
      BY <1>5, <2>1, <3>1 DEF BackupPage, Encrypt, Contents, JobType
  <2>2. CASE ~IsEnvelope(c)
    BY <1>3, <2>2 DEF BackupPage
  <2> QED
    BY <2>1, <2>2
<1> DEFINE page == BackupPage(opened, c)
<1>p. page = BackupPage(opened, c)
  OBVIOUS
<1> HIDE DEF page
<1> DEFINE printed == [opened EXCEPT !.page = page, !.read = c]
<1>7. /\ printed \in JobType /\ printed.cmd = job[p].cmd /\ printed.form = job[p].form
      /\ printed.num = job[p].num /\ printed.file = job[p].file /\ printed.phase = "read"
  BY <1>3, <1>5, <1>6, <1>p DEF JobType
<1>8. Return(p) \/ NextFile(p, printed) \/ NextFile(p, opened)
  BY <1>1, <1>p DEF c, j, opened
<1> HIDE DEF printed
<1>9. Ready(opened, commands) /\ Ready(printed, commands)
  BY <1>2, <1>5, <1>7 DEF Ready
<1> DEFINE Goal == \E k \in JobType : /\ Ready(k, commands) /\ Set(p, k) /\ ~Busy(k)
                                    /\ k.phase \in {"done", "look", "read"}
                                    /\ k.cmd \notin {"create", "seal"}
<1>10. ASSUME NEW k \in JobType, k.phase = "read", Ready(k, commands), NextFile(p, k) PROVE Goal
  <2>1. k.cmd # "seal" /\ k.cmd \in {"open", "print", "accounts"} /\ k.form = "plain"
    BY <1>10 DEF Ready
  <2> QED
    BY <1>10, <2>1, NextFileReady
<1>11. CASE Return(p)
  BY <1>2, <1>11, DoneReady DEF Return, Busy
<1> QED
  BY <1>5, <1>7, <1>8, <1>9, <1>10, <1>11

LEMMA ReadFileType ==
    ASSUME TypeInv, NEW p \in Procs, NEW typed \in Passwords, ReadFile(p, typed)
    PROVE  TypeInv'
<1>1. PICK k \in JobType : /\ Ready(k, commands) /\ Set(p, k) /\ ~Busy(k)
                           /\ k.phase \in {"done", "look", "read"}
  BY ReadFileJob
<1> QED
  BY <1>1, QuietSet DEF ReadFile, TypeInv, HistoryType

\* Keys that create --plain is writing are keys.
LEMMA HalfWrittenType == ASSUME TypeInv, NEW f \in Files PROVE HalfWritten(f) \subseteq Keys
<1> SUFFICES ASSUME NEW q \in Procs, writing[<<f, "plain">>] = q PROVE job[q].data.key \in Keys
  BY DEF HalfWritten
<1>1. <<f, "plain">> \in Paths
  BY DEF Paths, Forms
<1>2. job[q].phase = "fill" /\ job[q].form = "plain" /\ Ready(job[q], commands)
  BY <1>1 DEF TypeInv, Handles, Path, JobsReady
<1>3. job[q].cmd = "create" /\ job[q].data.key = NumFiles + job[q].num /\ job[q].num \in 1 .. commands
  BY <1>2 DEF Ready
<1>4. commands \in 0 .. MaxCommands
  BY DEF TypeInv, CountsType
<1> QED
  BY <1>3, <1>4, KeyBound, Zenon

LEMMA LookType == ASSUME TypeInv, NEW p \in Procs, Look(p) PROVE TypeInv'
<1>1. PICK f \in Files :
        LET c == Plain(f)
            j == [job[p] EXCEPT !.todo = @ \ {f}, !.file = f]
        IN  /\ job[p].phase = "look"
            /\ unguarded' = unguarded \/ unguarded' = unguarded \cup HalfWritten(f)
            /\ \/ Return(p)
               \/ NextFile(p, j)
               \/ /\ c # NoFile /\ (IsEnvelope(c) => Opens(c, j.pw))
                  /\ Set(p, [j EXCEPT !.phase = "make",
                               !.data = IF IsEnvelope(c) THEN c ELSE Encrypt(c, j.pw)])
  BY DEF Look
<1> DEFINE c == Plain(f)
           j == [job[p] EXCEPT !.todo = job[p].todo \ {f}, !.file = f]
           data == IF IsEnvelope(c) THEN c ELSE Encrypt(c, j.pw)
<1>2. /\ job[p].phase = "look" /\ job[p] \in JobType /\ Ready(job[p], commands)
      /\ mixed' \subseteq {"overlap", "both forms"}
      /\ UNCHANGED <<disk, writing, faults, kept, commands>>
  BY <1>1 DEF Look, TypeInv, JobsReady, HistoryType
<1>3. unguarded' \subseteq Keys
  BY <1>1, HalfWrittenType DEF TypeInv, HistoryType
<1>4. job[p].cmd = "seal" /\ job[p].form = "sealed" /\ job[p].pw \in Passwords
  BY <1>2 DEF Ready
<1>5. c \in Contents \cup {NoFile}
  BY DEF Plain, Paths, Forms, TypeInv, FilesType
<1>6. /\ j \in JobType /\ j.pw = job[p].pw /\ j.cmd = "seal" /\ j.form = "sealed"
      /\ j.file = f /\ j.phase = "look"
  BY <1>2, <1>4 DEF JobType
<1>7. Return(p) \/ NextFile(p, j) \/ (c # NoFile /\ (IsEnvelope(c) => Opens(c, j.pw))
                                    /\ Set(p, [j EXCEPT !.phase = "make", !.data = data]))
  BY <1>1
<1> HIDE DEF j, c
<1>8. CASE NextFile(p, j)
  <2>1. Ready(j, commands)
    BY <1>2, <1>4, <1>6 DEF Ready
  <2>2. PICK k \in JobType : Ready(k, commands) /\ Set(p, k) /\ ~Busy(k) /\ k.phase # "fill"
    BY <1>4, <1>6, <1>8, <2>1, NextFileReady
  <2> QED
    BY <1>2, <1>3, <2>2, QuietSet
<1>9. CASE /\ c # NoFile /\ (IsEnvelope(c) => Opens(c, j.pw))
           /\ Set(p, [j EXCEPT !.phase = "make", !.data = data])
  <2> DEFINE k == [j EXCEPT !.phase = "make", !.data = data]
  <2>1. data \in Contents /\ data.pw = job[p].pw
    BY <1>4, <1>5, <1>6, <1>9 DEF Opens, Encrypt, Contents
  <2> HIDE DEF data
  <2>2. /\ k \in JobType /\ k.pw = job[p].pw /\ k.cmd = "seal" /\ k.form = "sealed"
        /\ k.file = f /\ k.phase = "make" /\ k.data = data
    BY <1>6, <2>1 DEF JobType, Phases
  <2> HIDE DEF k
  <2>3. Ready(k, commands) /\ ~Busy(k) /\ k.phase # "fill"
    BY <1>4, <2>1, <2>2 DEF Ready, Busy
  <2>4. Set(p, k)
    BY <1>9 DEF k
  <2> QED
    BY <1>2, <1>3, <2>2, <2>3, <2>4, QuietSet
<1> QED
  BY <1>2, <1>3, <1>7, <1>8, <1>9, QuietReturn

\* What a step that writes has to show.
LEMMA WriteStep ==
    ASSUME TypeInv, FilesType', HistoryType', faults' \in 0 .. MaxFaults, commands' = commands,
           NEW p \in Procs, NEW k \in JobType, Ready(k, commands), Set(p, k), Handles', Apart'
    PROVE  TypeInv'
<1>1. commands \in 0 .. MaxCommands
  BY DEF TypeInv, CountsType
<1>2. commands' \in 0 .. MaxCommands /\ commands <= commands' /\ Ready(k, commands')
  BY <1>1, SameCount, Zenon
<1>3. JobsReady'
  BY <1>1, <1>2, SetReady DEF TypeInv, CountsType
<1> QED
  BY <1>2, <1>3 DEF TypeInv, CountsType

\* Closing a handle takes none from another process.
LEMMA CloseHandles ==
    ASSUME TypeInv, NEW p \in Procs, writing' = Close(p),
           \A q \in Procs \ {p} : job'[q] = job[q],
           \A x \in Paths : writing[x] # p => disk'[x] = disk[x]
    PROVE  writing' \in [Paths -> Procs \cup {NoOne}] /\ Handles'
<1>1. writing' \in [Paths -> Procs \cup {NoOne}]
  BY DEF Close, TypeInv, FilesType
<1>2. ASSUME NEW x \in Paths, NEW q \in Procs, writing'[x] = q
      PROVE  job'[q].phase = "fill" /\ x = Path(q)' /\ disk'[x] = Fragment
  <2>1. q # p /\ writing[x] = q
    BY <1>2, ProcAssumption DEF Close
  <2>2. job[q].phase = "fill" /\ x = Path(q) /\ disk[x] = Fragment
    BY <2>1 DEF TypeInv, Handles
  <2> QED
    BY <2>1, <2>2 DEF Path
<1> QED
  BY <1>1, <1>2 DEF Handles

\* What a process writes to its own file leaves the others' files where they are.
LEMMA PutFacts ==
    ASSUME TypeInv, NEW p \in Procs, job[p].phase = "fill", NEW c \in Contents, Put(p, c)
    PROVE  /\ disk' \in [Paths -> Contents \cup {NoFile}]
           /\ \A x \in Paths : writing[x] # p => disk'[x] = disk[x]
           /\ \A x \in Paths : disk[x] # NoFile => disk'[x] # NoFile
           /\ Path(p) \in Paths
<1>1. Path(p) \in Paths
  BY DEF Path, Paths, TypeInv, JobsReady, Ready, JobType
<1>2. disk' = disk \/ (writing[Path(p)] = p /\ disk' = [disk EXCEPT ![Path(p)] = c])
  BY DEF Put
<1> QED
  BY <1>1, <1>2, Bounds DEF TypeInv, FilesType

\* A file that stays keeps the busy apart, if the process goes on with its own or
\* stops.
LEMMA ApartKept ==
    ASSUME TypeInv, NEW p \in Procs, \A q \in Procs \ {p} : job'[q] = job[q],
           \A x \in Paths : x[2] = "sealed" /\ disk[x] # NoFile => disk'[x] # NoFile,
           Busy(job'[p]) => Busy(job[p]) /\ job'[p].file = job[p].file
    PROVE  Apart'
<1> SUFFICES ASSUME NEW q \in Procs, Busy(job'[q])
             PROVE  /\ Sealed(job[q].file)' # NoFile
                    /\ \A r \in Procs \ {q} : Busy(job'[r]) => job'[r].file # job'[q].file
  <2>1. \A q \in Procs : Busy(job'[q]) => job'[q].file = job[q].file
    OBVIOUS
  <2> QED
    BY <2>1 DEF Apart, Sealed
<1>1. \A r \in Procs : Busy(job'[r]) => Busy(job[r]) /\ job'[r].file = job[r].file
  OBVIOUS
<1>2. Sealed(job[q].file) # NoFile /\ \A r \in Procs \ {q} : Busy(job[r]) => job[r].file # job[q].file
  BY <1>1 DEF TypeInv, Apart
<1>3. job[q].file \in Files
  BY <1>1 DEF TypeInv, JobsReady, Ready, Busy
<1>4. Sealed(job[q].file)' # NoFile
  <2>1. <<job[q].file, "sealed">> \in Paths
    BY <1>3 DEF Paths, Forms
  <2>2. job'[q].file = job[q].file
    BY <1>1
  <2> QED
    BY <1>2, <2>1, <2>2 DEF Sealed
<1> QED
  BY <1>1, <1>2, <1>4

LEMMA MakeType == ASSUME TypeInv, NEW p \in Procs, Make(p) PROVE TypeInv'
<1>1. job[p].phase = "make" /\ job[p] \in JobType /\ Ready(job[p], commands)
  BY DEF Make, TypeInv, JobsReady
<1>2. CASE ~CreateNew(p)
  BY <1>1, <1>2, QuietReturn DEF Make, TypeInv, HistoryType
<1>3. CASE CreateNew(p)
  <2> DEFINE k == [job[p] EXCEPT !.phase = "fill"]
  <2>1. /\ Set(p, k) /\ disk' = [disk EXCEPT ![Path(p)] = Fragment] /\ disk[Path(p)] = NoFile
        /\ writing' = [writing EXCEPT ![Path(p)] = p]
        /\ UNCHANGED <<faults, commands, kept, unguarded, mixed>>
    BY <1>3 DEF Make, CreateNew
  <2>2. /\ k \in JobType /\ k.phase = "fill" /\ k.cmd = job[p].cmd /\ k.form = job[p].form
        /\ k.num = job[p].num /\ k.file = job[p].file /\ k.pw = job[p].pw /\ k.data = job[p].data
    BY <1>1 DEF JobType, Phases
  <2> HIDE DEF k
  <2>3. Ready(k, commands)
    BY <1>1, <2>2 DEF Ready
  <2>4. job'[p] = k /\ \A q \in Procs \ {p} : job'[q] = job[q]
    BY <2>1 DEF Set, TypeInv, JobsReady
  <2>5. Path(p) \in Paths /\ Path(p)' = Path(p) /\ \A q \in Procs \ {p} : Path(q)' = Path(q)
    BY <1>1, <2>2, <2>4 DEF Path, Paths, Ready, JobType
  <2>6. FilesType'
    BY <2>1, <2>5, Bounds DEF TypeInv, FilesType
  <2>7. Handles'
    <3> SUFFICES ASSUME NEW x \in Paths, NEW q \in Procs, writing'[x] = q
                 PROVE  job'[q].phase = "fill" /\ x = Path(q)' /\ disk'[x] = Fragment
      BY DEF Handles
    <3>1. CASE x = Path(p)
      <4>1. q = p /\ disk'[x] = Fragment
        BY <2>1, <2>5, <3>1 DEF TypeInv, FilesType
      <4> QED
        BY <2>2, <2>4, <2>5, <3>1, <4>1
    <3>2. CASE x # Path(p)
      <4>1. writing[x] = q /\ disk'[x] = disk[x]
        BY <2>1, <2>5, <3>2 DEF TypeInv, FilesType
      <4>2. job[q].phase = "fill" /\ x = Path(q) /\ disk[x] = Fragment
        BY <4>1 DEF TypeInv, Handles
      <4> QED
        BY <1>1, <2>4, <2>5, <4>1, <4>2
    <3> QED
      BY <3>1, <3>2
  <2>8. Apart'
    <3>1. ASSUME NEW q \in Procs \ {p}, Busy(job[q]), job[p].form = "sealed"
          PROVE  job[q].file # job[p].file
      BY <2>1, <3>1 DEF TypeInv, Apart, Sealed, Path
    <3>2. \A q \in Procs : Busy(job'[q]) => job'[q].file \in Files
      BY <1>1, <2>2, <2>4 DEF TypeInv, JobsReady, Ready, Busy
    <3> SUFFICES ASSUME NEW q \in Procs, Busy(job'[q])
                 PROVE  /\ disk'[<<job'[q].file, "sealed">>] # NoFile
                        /\ \A r \in Procs \ {q} : Busy(job'[r]) => job'[r].file # job'[q].file
      BY DEF Apart, Sealed
    <3>3. disk'[<<job'[q].file, "sealed">>] # NoFile
      <4>1. <<job'[q].file, "sealed">> \in Paths
        BY <3>2 DEF Paths, Forms
      <4>2. CASE q = p
        <5>1. <<job'[q].file, "sealed">> = Path(p)
          BY <2>2, <2>4, <4>2 DEF Busy, Path
        <5> QED
          BY <2>1, <4>1, <5>1, Bounds DEF TypeInv, FilesType
      <4>3. CASE q # p
        <5>1. disk[<<job[q].file, "sealed">>] # NoFile
          BY <2>4, <4>3 DEF TypeInv, Apart, Sealed
        <5> QED
          BY <2>1, <2>4, <4>1, <4>3, <5>1, Bounds DEF TypeInv, FilesType
      <4> QED
        BY <4>2, <4>3
    <3>4. ASSUME NEW r \in Procs \ {q}, Busy(job'[r]) PROVE job'[r].file # job'[q].file
      BY <2>2, <2>4, <3>1, <3>4 DEF TypeInv, Apart, Busy
    <3> QED
      BY <3>3, <3>4
  <2> QED
    BY <2>1, <2>2, <2>3, <2>6, <2>7, <2>8, WriteStep DEF TypeInv, HistoryType, CountsType
<1> QED
  BY <1>2, <1>3

LEMMA FillType ==
    ASSUME TypeInv, NEW p \in Procs, Fill(p) \/ FillFails(p) \/ FillDamaged(p)
    PROVE  TypeInv'
<1>1. /\ job[p].phase = "fill" /\ job[p] \in JobType /\ Ready(job[p], commands)
      /\ writing' = Close(p) /\ commands' = commands /\ mixed' = mixed
  BY DEF Fill, FillFails, FillDamaged, TypeInv, JobsReady
<1>2. job[p].data \in Contents /\ Fragment \in Contents
  BY <1>1, Bounds DEF Ready
<1>3. PICK c \in Contents : Put(p, c)
  BY <1>2 DEF Fill, FillFails, FillDamaged
<1>4. /\ disk' \in [Paths -> Contents \cup {NoFile}]
      /\ \A x \in Paths : writing[x] # p => disk'[x] = disk[x]
      /\ \A x \in Paths : disk[x] # NoFile => disk'[x] # NoFile
  BY <1>1, <1>3, PutFacts
<1>5. faults' \in 0 .. MaxFaults
  BY Bounds DEF TypeInv, CountsType, Fill, FillFails, FillDamaged
<1>6. ASSUME job[p].form = "plain" PROVE job[p].data.key \in Keys
  <2>1. job[p].cmd = "create" /\ job[p].data.key = NumFiles + job[p].num /\ job[p].num \in 1 .. commands
    BY <1>1, <1>6 DEF Ready
  <2>2. commands \in 0 .. MaxCommands
    BY DEF TypeInv, CountsType
  <2> QED
    BY <2>1, <2>2, KeyBound, Zenon
<1>7. HistoryType'
  BY <1>1, <1>6 DEF TypeInv, HistoryType, Fill, FillFails, FillDamaged, Filled
<1> DEFINE k == [job[p] EXCEPT !.phase = "verify"]
<1>8. Set(p, Done(job[p])) \/ (job[p].form # "plain" /\ Set(p, k))
  BY DEF Fill, FillFails, FillDamaged, Filled, Return
<1>9. ASSUME NEW m \in JobType, Ready(m, commands), Set(p, m),
             Busy(m) => Busy(job[p]) /\ m.file = job[p].file
      PROVE  TypeInv'
  <2>1. job'[p] = m /\ \A q \in Procs \ {p} : job'[q] = job[q]
    BY <1>9 DEF Set, TypeInv, JobsReady
  <2>2. writing' \in [Paths -> Procs \cup {NoOne}] /\ Handles'
    BY <1>1, <1>4, <2>1, CloseHandles
  <2>3. Apart'
    BY <1>4, <1>9, <2>1, ApartKept
  <2> QED
    BY <1>1, <1>4, <1>5, <1>7, <1>9, <2>2, <2>3, WriteStep DEF FilesType
<1>10. CASE Set(p, Done(job[p]))
  <2>1. Done(job[p]) \in JobType /\ Ready(Done(job[p]), commands) /\ ~Busy(Done(job[p]))
    BY <1>1, DoneReady DEF Busy
  <2> QED
    BY <1>9, <1>10, <2>1
<1>11. CASE job[p].form # "plain" /\ Set(p, k)
  <2>1. /\ k \in JobType /\ k.phase = "verify" /\ k.cmd = job[p].cmd /\ k.form = job[p].form
        /\ k.num = job[p].num /\ k.file = job[p].file /\ k.pw = job[p].pw /\ k.data = job[p].data
        /\ k.form = "sealed"
    BY <1>1, <1>11 DEF JobType, Phases, Forms
  <2> HIDE DEF k
  <2>2. Ready(k, commands) /\ Busy(job[p])
    BY <1>1, <2>1 DEF Ready, Busy
  <2>3. Set(p, k)
    BY <1>11 DEF k
  <2> QED
    BY <1>9, <2>1, <2>2, <2>3
<1> QED
  BY <1>8, <1>10, <1>11

LEMMA VerifyType == ASSUME TypeInv, NEW p \in Procs, Verify(p) PROVE TypeInv'
<1>1. /\ job[p].phase = "verify" /\ job[p] \in JobType /\ Ready(job[p], commands)
      /\ UNCHANGED <<writing, faults, commands, unguarded, mixed>>
  BY DEF Verify, TypeInv, JobsReady
<1>2. job[p].form = "sealed" /\ Busy(job[p]) /\ job[p].file \in Files
  BY <1>1 DEF Ready, Busy
<1>3. Path(p) = <<job[p].file, "sealed">> /\ Path(p) \in Paths
  BY <1>2 DEF Path, Paths, Forms
<1> DEFINE k == [job[p] EXCEPT !.phase = "remove"]
<1>4. CASE ReadsBack(p) /\ job[p].cmd = "seal"
  <2>1. Set(p, k) /\ UNCHANGED <<disk, kept>>
    BY <1>4 DEF Verify
  <2>2. /\ k \in JobType /\ k.phase = "remove" /\ k.cmd = job[p].cmd /\ k.form = job[p].form
        /\ k.num = job[p].num /\ k.file = job[p].file /\ k.pw = job[p].pw /\ k.data = job[p].data
    BY <1>1 DEF JobType, Phases
  <2> HIDE DEF k
  <2>3. Ready(k, commands)
    BY <1>1, <1>4, <2>2 DEF Ready
  <2>4. job'[p] = k /\ \A q \in Procs \ {p} : job'[q] = job[q]
    BY <2>1 DEF Set, TypeInv, JobsReady
  <2>5. Handles'
    BY <1>1, <2>1, <2>4, HandlesKept DEF TypeInv
  <2>6. Apart'
    BY <1>2, <2>1, <2>2, <2>4, ApartKept
  <2> QED
    BY <1>1, <2>1, <2>2, <2>3, <2>5, <2>6, WriteStep DEF TypeInv, FilesType, HistoryType, CountsType
<1>5. ASSUME Return(p), disk' \in {disk, [disk EXCEPT ![Path(p)] = NoFile]}, kept' \subseteq Keys
      PROVE  TypeInv'
  <2> DEFINE d == Done(job[p])
  <2>1. d \in JobType /\ Ready(d, commands) /\ ~Busy(d) /\ Set(p, d)
    BY <1>1, <1>5, DoneReady DEF Busy, Return
  <2> HIDE DEF d
  <2>2. job'[p] = d /\ \A q \in Procs \ {p} : job'[q] = job[q]
    BY <2>1 DEF Set, TypeInv, JobsReady
  <2>3. FilesType'
    BY <1>1, <1>3, <1>5 DEF TypeInv, FilesType
  <2>4. ASSUME NEW q \in Procs \ {p}, Busy(job[q]) PROVE job[q].file # job[p].file
    BY <1>2, <2>4 DEF TypeInv, Apart
  <2>5. ASSUME NEW x \in Paths, x # Path(p) PROVE disk'[x] = disk[x]
    BY <1>5, <2>5 DEF TypeInv, FilesType
  <2>6. Handles'
    <3> SUFFICES ASSUME NEW x \in Paths, NEW q \in Procs, writing'[x] = q
                 PROVE  job'[q].phase = "fill" /\ x = Path(q)' /\ disk'[x] = Fragment
      BY DEF Handles
    <3>1. job[q].phase = "fill" /\ x = Path(q) /\ disk[x] = Fragment
      BY <1>1 DEF TypeInv, Handles
    <3>2. q # p
      BY <1>1, <3>1
    <3>3. x # Path(p)
      <4>1. job[q].form = "sealed" => Busy(job[q])
        BY <3>1 DEF Busy
      <4> QED
        BY <1>3, <2>4, <3>1, <3>2, <4>1 DEF Path
    <3> QED
      BY <2>2, <2>5, <3>1, <3>2, <3>3 DEF Path
  <2>7. Apart'
    <3> SUFFICES ASSUME NEW q \in Procs, Busy(job'[q])
                 PROVE  /\ disk'[<<job'[q].file, "sealed">>] # NoFile
                        /\ \A r \in Procs \ {q} : Busy(job'[r]) => job'[r].file # job'[q].file
      BY DEF Apart, Sealed
    <3>1. q # p /\ job'[q] = job[q]
      BY <2>1, <2>2
    <3>2. /\ disk[<<job[q].file, "sealed">>] # NoFile
          /\ \A r \in Procs \ {q} : Busy(job[r]) => job[r].file # job[q].file
      BY <3>1 DEF TypeInv, Apart, Sealed
    <3>3. <<job[q].file, "sealed">> \in Paths
      BY <3>1 DEF Busy, TypeInv, JobsReady, Ready, Paths, Forms
    <3>4. <<job[q].file, "sealed">> # Path(p)
      BY <1>3, <2>4, <3>1
    <3> QED
      BY <2>1, <2>2, <2>5, <3>1, <3>2, <3>3, <3>4
  <2> QED
    BY <1>1, <1>5, <2>1, <2>3, <2>6, <2>7, WriteStep DEF TypeInv, HistoryType, CountsType
<1>6. CASE ReadsBack(p) /\ job[p].cmd # "seal"
  <2>1. job[p].cmd = "create" /\ job[p].data.key = NumFiles + job[p].num /\ job[p].num \in 1 .. commands
    BY <1>1, <1>6 DEF Ready
  <2>2. commands \in 0 .. MaxCommands
    BY DEF TypeInv, CountsType
  <2>3. job[p].data.key \in Keys
    BY <2>1, <2>2, KeyBound, Zenon
  <2> QED
    BY <1>5, <1>6, <2>3 DEF Verify, TypeInv, HistoryType
<1>7. CASE ~ReadsBack(p)
  BY <1>5, <1>7 DEF Verify, TypeInv, HistoryType
<1> QED
  BY <1>4, <1>6, <1>7

LEMMA RemoveType ==
    ASSUME TypeInv, NEW p \in Procs, Remove(p) \/ RemoveFails(p)
    PROVE  TypeInv'
<1>1. /\ job[p].phase = "remove" /\ job[p] \in JobType /\ Ready(job[p], commands)
      /\ UNCHANGED <<commands, kept, unguarded, mixed>>
  BY DEF Remove, RemoveFails, TypeInv, JobsReady
<1>2. job[p].form = "sealed" /\ job[p].cmd = "seal" /\ job[p].file \in Files /\ job[p].pw \in Passwords
  BY <1>1 DEF Ready
<1> DEFINE x == <<job[p].file, "plain">>
<1>3. x \in Paths
  BY <1>2 DEF Paths, Forms
<1>4. CASE Return(p) /\ UNCHANGED <<disk, writing>> /\ faults' \in 0 .. MaxFaults
  <2> DEFINE d == Done(job[p])
  <2>1. d \in JobType /\ Ready(d, commands) /\ ~Busy(d) /\ Set(p, d)
    BY <1>1, <1>4, DoneReady DEF Busy, Return
  <2> HIDE DEF d
  <2>2. job'[p] = d /\ \A q \in Procs \ {p} : job'[q] = job[q]
    BY <2>1 DEF Set, TypeInv, JobsReady
  <2>3. Handles'
    BY <1>1, <1>4, <2>2, HandlesKept DEF TypeInv
  <2>4. Apart'
    BY <1>4, <2>1, <2>2, ApartKept
  <2> QED
    BY <1>1, <1>4, <2>1, <2>3, <2>4, WriteStep DEF TypeInv, FilesType, HistoryType, CountsType
<1>5. CASE /\ disk' = [disk EXCEPT ![x] = NoFile] /\ writing' = [writing EXCEPT ![x] = NoOne]
           /\ NextFile(p, job[p]) /\ faults' = faults
  <2>1. PICK k \in JobType : Ready(k, commands) /\ Set(p, k) /\ ~Busy(k)
    BY <1>1, <1>2, <1>5, NextFileReady
  <2>2. job'[p] = k /\ \A q \in Procs \ {p} : job'[q] = job[q]
    BY <2>1 DEF Set, TypeInv, JobsReady
  <2>3. FilesType'
    BY <1>3, <1>5 DEF TypeInv, FilesType
  <2>4. Handles'
    <3> SUFFICES ASSUME NEW y \in Paths, NEW q \in Procs, writing'[y] = q
                 PROVE  job'[q].phase = "fill" /\ y = Path(q)' /\ disk'[y] = Fragment
      BY DEF Handles
    <3>1. y # x /\ writing[y] = q /\ disk'[y] = disk[y]
      BY <1>3, <1>5, ProcAssumption DEF TypeInv, FilesType
    <3>2. job[q].phase = "fill" /\ y = Path(q) /\ disk[y] = Fragment
      BY <3>1 DEF TypeInv, Handles
    <3> QED
      BY <1>1, <2>2, <3>1, <3>2 DEF Path
  <2>5. \A y \in Paths : y[2] = "sealed" /\ disk[y] # NoFile => disk'[y] # NoFile
    BY <1>3, <1>5 DEF TypeInv, FilesType
  <2>6. Apart'
    BY <2>1, <2>2, <2>5, ApartKept
  <2> QED
    BY <1>1, <1>5, <2>1, <2>3, <2>4, <2>6, WriteStep DEF TypeInv, HistoryType, CountsType
<1>6. ASSUME Remove(p) PROVE TypeInv'
  BY <1>4, <1>5, <1>6 DEF Remove, TypeInv, CountsType
<1>7. ASSUME RemoveFails(p) PROVE TypeInv'
  BY <1>4, <1>7, Bounds DEF RemoveFails, TypeInv, CountsType
<1> QED
  BY <1>6, <1>7

LEMMA CrashType == ASSUME TypeInv, NEW p \in Procs, Crash(p) PROVE TypeInv'
<1>1. Idle \in JobType /\ Ready(Idle, commands) /\ ~Busy(Idle) /\ Set(p, Idle)
  BY IdleReady DEF Busy, Crash
<1>2. job'[p] = Idle /\ \A q \in Procs \ {p} : job'[q] = job[q]
  BY <1>1 DEF Set, TypeInv, JobsReady
<1>3. /\ disk' = disk /\ writing' = Close(p)
      /\ UNCHANGED <<faults, commands, kept, unguarded, mixed>>
  BY DEF Crash
<1>4. writing' \in [Paths -> Procs \cup {NoOne}] /\ Handles'
  BY <1>2, <1>3, CloseHandles
<1>5. Apart'
  BY <1>1, <1>2, <1>3, ApartKept
<1> QED
  BY <1>1, <1>3, <1>4, <1>5, WriteStep DEF TypeInv, FilesType, HistoryType, CountsType

\* At the start nothing runs and nothing is being written.
LEMMA InitType == Init => TypeInv
<1> SUFFICES ASSUME Init PROVE TypeInv
  OBVIOUS
<1>1. PICK pw \in Passwords, start \in [Files -> {"absent", "clear", "envelope", "sealed"}] :
        disk = [x \in Paths |-> StartContent(x[1], x[2], start[x[1]], pw)]
  BY DEF Init
<1>2. ASSUME NEW f \in Files, NEW form, NEW s PROVE StartContent(f, form, s, pw) \in Contents \cup {NoFile}
  <2>1. f \in Keys
    BY Bounds DEF Files, Keys
  <2> QED
    BY <2>1 DEF StartContent, Encrypt, Contents
<1>3. FilesType
  BY <1>1, <1>2 DEF Init, FilesType, Paths
<1>4. HistoryType
  <2>1. ASSUME NEW x \in Paths, disk[x] # NoFile PROVE disk[x].key \in Keys
    <3>1. x[1] \in Keys /\ x[1] \in Files
      BY Bounds DEF Paths, Files, Keys
    <3> QED
      BY <1>1, <2>1, <3>1 DEF StartContent, Encrypt
  <2> QED
    BY <2>1 DEF Init, HistoryType
<1>5. JobsReady
  BY IdleReady DEF Init, JobsReady
<1>6. Handles
  BY ProcAssumption DEF Init, Handles
<1>7. Apart
  BY DEF Init, Apart, Busy, Idle
<1> QED
  BY <1>3, <1>4, <1>5, <1>6, <1>7, Bounds DEF Init, TypeInv, CountsType

LEMMA StepType == TypeInv /\ [Next]_vars => TypeInv'
<1> SUFFICES ASSUME TypeInv, [Next]_vars PROVE TypeInv'
  OBVIOUS
<1>1. ASSUME NEW p \in Procs, ProcStep(p) PROVE TypeInv'
  BY <1>1, StartType, AskType, CheckType, RefuseType, LookType, MakeType, FillType, VerifyType,
     RemoveType, ReadFileType, CrashType DEF ProcStep
<1>2. CASE UNCHANGED vars
  BY <1>2 DEF vars, TypeInv, FilesType, HistoryType, CountsType, JobsReady, Handles, Apart, Path, Sealed
<1> QED
  BY <1>1, <1>2 DEF Next

\* A file being written is the one its process has just created, and two commands
\* never seal the same file: what the order of create_new, write and verification
\* in vault.rs and the bin rests on.
THEOREM VaultInvariance == Spec => []TypeInv
BY InitType, StepType, PTL DEF Spec

\* Every variable has its type, and nobody writes to a file another process made.
THEOREM TypeCorrect == Spec => []TypeOK
<1>1. TypeInv => TypeOK
  BY DEF TypeInv, FilesType, HistoryType, CountsType, JobsReady, Handles, TypeOK
<1> QED
  BY <1>1, VaultInvariance, PTL

-----------------------------------------------------------------------------
(***************************************************************************)
(* No key is lost                                                          *)
(***************************************************************************)

\* The plaintext a command seals is still there and is what it read, unless it was
\* read half-written, and then its key is unguarded.
SourceKept(p) ==
    LET j == job[p]
        c == Plain(j.file)
    IN  /\ c # NoFile
        /\ j.data.key # Torn => c.key = j.data.key
        /\ j.data.key = Torn => c.key \in unguarded \cup {Torn}
        /\ j.data.key = Torn =>
             \A r \in Procs : writing[<<j.file, "plain">>] = r => job[r].data.key \in unguarded

\* A sealed file that nobody is busy creating stays, so that create_new fails there.
Settled(f) ==
    /\ Sealed(f) # NoFile
    /\ \A p \in Procs : job[p].phase \in {"fill", "verify"} => Path(p) # <<f, "sealed">>

\* What a command that writes knows about the file it writes.
WritesWell(p) ==
    LET j == job[p]
    IN  /\ j.phase = "fill" => writing[Path(p)] = p \/ (j.form = "plain" /\ j.data.key \in unguarded)
        /\ j.phase = "verify" => Sealed(j.file) \in {j.data, Fragment}
        /\ j.phase = "remove" => Sealed(j.file) = j.data
        /\ j.cmd = "seal" /\ j.phase \in {"fill", "verify", "remove"} => SourceKept(p)
        /\ j.cmd = "seal" /\ j.phase = "make" => SourceKept(p) \/ Settled(j.file)

SafeInv == KeyKept /\ \A p \in Procs : WritesWell(p)

\* The plaintext stays as long as its file is not touched.
LEMMA SourceStable ==
    ASSUME NEW q \in Procs, SourceKept(q), job'[q].file = job[q].file, job'[q].data = job[q].data,
           unguarded \subseteq unguarded',
           disk'[<<job[q].file, "plain">>] = disk[<<job[q].file, "plain">>],
           \A r \in Procs : writing'[<<job[q].file, "plain">>] = r =>
             writing[<<job[q].file, "plain">>] = r /\ job'[r].data = job[r].data
    PROVE  SourceKept(q)'
BY DEF SourceKept, Plain

\* A step that writes nothing leaves the others as they were.
LEMMA QuietOthers ==
    ASSUME TypeInv, NEW p \in Procs, UNCHANGED <<disk, writing>>, unguarded \subseteq unguarded',
           \A q \in Procs \ {p} : job'[q] = job[q],
           job[p].phase # "fill", job'[p].phase \notin {"fill", "verify"},
           NEW q \in Procs \ {p}, WritesWell(q)
    PROVE  WritesWell(q)'
<1>1. ASSUME SourceKept(q), job[q].file \in Files PROVE SourceKept(q)'
  <2>1. <<job[q].file, "plain">> \in Paths
    BY <1>1 DEF Paths, Forms
  <2>2. ASSUME NEW r \in Procs, writing[<<job[q].file, "plain">>] = r PROVE r # p
    BY <2>1, <2>2 DEF TypeInv, Handles
  <2> QED
    BY <1>1, <2>2, SourceStable
<1>2. ASSUME NEW f, Settled(f) PROVE Settled(f)'
  BY <1>2 DEF Settled, Sealed, Path
<1>3. job[q].phase \in {"make", "fill", "verify", "remove"} => job[q].file \in Files
  BY DEF TypeInv, JobsReady, Ready
<1>4. job'[q] = job[q]
  OBVIOUS
<1> QED
  BY <1>1, <1>2, <1>3, <1>4 DEF WritesWell, Sealed, Path

\* Nothing is lost either.
LEMMA QuietSafe ==
    ASSUME TypeInv, SafeInv, NEW p \in Procs, UNCHANGED <<disk, writing, kept>>,
           unguarded \subseteq unguarded',
           \A q \in Procs \ {p} : job'[q] = job[q],
           job[p].phase # "fill", job'[p].phase \notin {"fill", "verify"}, WritesWell(p)'
    PROVE  SafeInv'
<1>1. KeyKept'
  BY DEF SafeInv, KeyKept, OnDisk
<1>2. \A q \in Procs \ {p} : WritesWell(q)'
  BY QuietOthers DEF SafeInv
<1> QED
  BY <1>1, <1>2 DEF SafeInv

\* The steps before a command writes, and those of a command that reads.
LEMMA EarlySafe ==
    ASSUME TypeInv, SafeInv, NEW p \in Procs,
           UNCHANGED <<disk, writing, kept>>, unguarded \subseteq unguarded', job[p].phase # "fill",
           NEW k, Set(p, k), k.phase \notin {"fill", "verify", "remove"},
           k.phase = "make" => k.cmd # "seal"
    PROVE  SafeInv'
<1>1. job'[p] = k /\ \A q \in Procs \ {p} : job'[q] = job[q]
  BY DEF Set, TypeInv, JobsReady
<1>2. WritesWell(p)'
  BY <1>1 DEF WritesWell
<1> QED
  BY <1>1, <1>2, QuietSafe

LEMMA ReturnSafe ==
    ASSUME TypeInv, SafeInv, NEW p \in Procs,
           UNCHANGED <<disk, writing, kept>>, unguarded \subseteq unguarded', job[p].phase # "fill",
           Return(p)
    PROVE  SafeInv'
<1>1. job[p] \in JobType
  BY DEF TypeInv, JobsReady
<1>2. Done(job[p]).phase = "done" /\ Set(p, Done(job[p]))
  BY <1>1, DoneReady DEF Return
<1> QED
  BY <1>2, EarlySafe

LEMMA EarlyStepsSafe ==
    ASSUME TypeInv, SafeInv, NEW p \in Procs,
           \/ \E f \in Files, form \in Forms : StartCreate(p, f, form)
           \/ StartSeal(p)
           \/ \E cmd \in {"open", "print", "accounts"}, fs \in SUBSET Files : StartRead(p, cmd, fs)
           \/ \E pw \in Passwords, reference \in {{}} \cup {{f} : f \in Files} : Ask(p, pw, reference)
           \/ AskFails(p) \/ Check(p) \/ Refuse(p)
    PROVE  SafeInv'
<1>1. /\ UNCHANGED <<disk, writing, kept>> /\ unguarded \subseteq unguarded'
      /\ job[p].phase # "fill" /\ job[p] \in JobType /\ Ready(job[p], commands)
  BY DEF StartCreate, StartSeal, StartRead, Begin, Running, Ask, AskFails, Check, Refuse,
         TypeInv, JobsReady
<1>2. ASSUME NEW k, Set(p, k), k.phase \in {"ask", "refuse", "check", "look", "read"} PROVE SafeInv'
  BY <1>1, <1>2, EarlySafe
<1>3. ASSUME NEW f \in Files, NEW form \in Forms, StartCreate(p, f, form) PROVE SafeInv'
  <2> DEFINE phase == IF form = "plain" THEN "refuse" ELSE "ask"
             k == [Idle EXCEPT !.cmd = "create", !.num = commands + 1, !.file = f, !.form = form,
                               !.phase = phase]
  <2>1. Set(p, k)
    BY <1>3 DEF StartCreate
  <2>2. phase \in {"refuse", "ask"}
    OBVIOUS
  <2> HIDE DEF phase
  <2>3. k.phase = phase
    BY DEF Idle
  <2> QED
    BY <1>2, <2>1, <2>2, <2>3
<1>4. ASSUME StartSeal(p) PROVE SafeInv'
  <2> DEFINE k == [Idle EXCEPT !.cmd = "seal", !.form = "sealed", !.phase = "ask",
                               !.todo = {f \in Discover : ~IsSealed(f)}, !.found = Discover]
  <2>1. Set(p, k) /\ k.phase = "ask"
    BY <1>4 DEF StartSeal, Idle
  <2> QED
    BY <1>2, <2>1
<1>5. ASSUME NEW cmd, NEW fs, StartRead(p, cmd, fs) PROVE SafeInv'
  <2> DEFINE k == [Idle EXCEPT !.cmd = cmd, !.phase = "read", !.todo = fs]
  <2>1. Set(p, k) /\ k.phase = "read"
    BY <1>5 DEF StartRead, Idle
  <2> QED
    BY <1>2, <2>1
<1>6. ASSUME NEW j \in JobType, Set(p, Writes(j)) PROVE SafeInv'
  <2> DEFINE phase == IF j.cmd = "seal" THEN "look" ELSE "refuse"
             k == [j EXCEPT !.phase = phase]
  <2>1. Set(p, k)
    BY <1>6 DEF Writes
  <2>2. phase \in {"look", "refuse"}
    OBVIOUS
  <2> HIDE DEF phase
  <2>3. k.phase = phase
    BY DEF JobType
  <2> QED
    BY <1>2, <2>1, <2>2, <2>3
<1>7. ASSUME NEW pw \in Passwords, NEW reference, Ask(p, pw, reference) PROVE SafeInv'
  <2> DEFINE found == IF job[p].cmd = "create" THEN Discover ELSE job[p].found
             j == [job[p] EXCEPT !.pw = pw, !.found = found]
             c == [j EXCEPT !.phase = "check"]
  <2>1. Return(p) \/ Set(p, Writes(j)) \/ Set(p, c)
    BY <1>7 DEF Ask
  <2>2. found \in SUBSET Files
    BY <1>1 DEF Discover, JobType
  <2> HIDE DEF found
  <2>3. j \in JobType
    BY <1>1, <2>2 DEF JobType
  <2> HIDE DEF j
  <2>4. c.phase = "check"
    BY <2>3 DEF JobType
  <2> HIDE DEF c
  <2> QED
    BY <1>1, <1>2, <1>6, <2>1, <2>3, <2>4, ReturnSafe
<1>8. ASSUME Check(p) PROVE SafeInv'
  <2>1. PICK f \in Files :
          LET j == [job[p] EXCEPT !.found = @ \ {f}]
          IN  job[p].phase = "check" /\ (Return(p) \/ Set(p, Writes(j)) \/ Set(p, j))
    BY <1>8 DEF Check
  <2> DEFINE j == [job[p] EXCEPT !.found = job[p].found \ {f}]
  <2>2. Return(p) \/ Set(p, Writes(j)) \/ Set(p, j)
    BY <2>1
  <2>3. j \in JobType /\ j.phase = "check"
    BY <1>1, <2>1 DEF JobType
  <2> HIDE DEF j
  <2> QED
    BY <1>1, <1>2, <1>6, <2>2, <2>3, ReturnSafe
<1>9. ASSUME Refuse(p) PROVE SafeInv'
  <2> DEFINE key == [key |-> NumFiles + job[p].num, pw |-> Clear]
             data == IF job[p].form = "sealed" THEN Encrypt(key, job[p].pw) ELSE key
             k == [job[p] EXCEPT !.phase = "make", !.data = data]
  <2>1. Return(p) \/ Set(p, k)
    BY <1>9 DEF Refuse
  <2> HIDE DEF data
  <2>2. job[p].phase = "refuse" /\ job[p].cmd = "create"
    BY <1>1, <1>9 DEF Refuse, Ready
  <2>3. k.phase = "make" /\ k.cmd = "create"
    BY <1>1, <2>2 DEF JobType
  <2> HIDE DEF k
  <2> QED
    BY <1>1, <2>1, <2>3, EarlySafe, ReturnSafe
<1>10. ASSUME AskFails(p) PROVE SafeInv'
  BY <1>1, <1>10, ReturnSafe DEF AskFails
<1> QED
  BY <1>3, <1>4, <1>5, <1>7, <1>8, <1>9, <1>10

LEMMA ReadFileSafe ==
    ASSUME TypeInv, SafeInv, NEW p \in Procs, NEW typed \in Passwords, ReadFile(p, typed)
    PROVE  SafeInv'
<1>1. /\ UNCHANGED <<disk, writing, kept>> /\ unguarded \subseteq unguarded'
      /\ job[p].phase = "read" /\ job[p] \in JobType /\ Ready(job[p], commands)
  BY DEF ReadFile, TypeInv, JobsReady
<1>2. PICK k \in JobType : Set(p, k) /\ k.phase \in {"done", "look", "read"}
  BY ReadFileJob
<1> QED
  BY <1>1, <1>2, EarlySafe

\* What a seal is about to write is what it has just read.
LEMMA LookSafe == ASSUME TypeInv, SafeInv, NEW p \in Procs, Look(p) PROVE SafeInv'
<1>1. PICK f \in Files :
        LET c == Plain(f)
            j == [job[p] EXCEPT !.todo = @ \ {f}, !.file = f]
        IN  /\ job[p].phase = "look"
            /\ \/ Return(p)
               \/ NextFile(p, j)
               \/ /\ c # NoFile /\ unguarded' = unguarded \cup HalfWritten(f)
                  /\ Set(p, [j EXCEPT !.phase = "make",
                               !.data = IF IsEnvelope(c) THEN c ELSE Encrypt(c, j.pw)])
  BY DEF Look
<1> DEFINE c == Plain(f)
           j == [job[p] EXCEPT !.todo = job[p].todo \ {f}, !.file = f]
           data == IF IsEnvelope(c) THEN c ELSE Encrypt(c, j.pw)
           k == [j EXCEPT !.phase = "make", !.data = data]
<1>2. /\ UNCHANGED <<disk, writing, kept>> /\ unguarded \subseteq unguarded'
      /\ job[p].phase = "look" /\ job[p] \in JobType /\ Ready(job[p], commands)
  BY <1>1 DEF Look, TypeInv, JobsReady
<1>3. /\ j \in JobType /\ j.cmd = "seal" /\ j.form = "sealed" /\ j.pw = job[p].pw /\ j.file = f
      /\ j.phase = "look" /\ j.num = job[p].num /\ j.data = job[p].data
  BY <1>2 DEF JobType, Ready
<1>4. Return(p) \/ NextFile(p, j) \/ (c # NoFile /\ unguarded' = unguarded \cup HalfWritten(f) /\ Set(p, k))
  BY <1>1
<1>5. CASE NextFile(p, j)
  <2>1. Ready(j, commands) /\ j.pw \in Passwords
    BY <1>2, <1>3 DEF Ready
  <2> HIDE DEF j
  <2>2. PICK m \in JobType : Set(p, m) /\ m.phase \in {"done", "look", "read"}
    BY <1>3, <1>5, <2>1, NextFileReady
  <2> QED
    BY <1>2, <2>2, EarlySafe
<1>6. CASE c # NoFile /\ unguarded' = unguarded \cup HalfWritten(f) /\ Set(p, k)
  <2>1. data.key = c.key
    BY DEF Encrypt
  <2> HIDE DEF data, c, j
  <2>2. k.phase = "make" /\ k.cmd = "seal" /\ k.file = f /\ k.data = data
    BY <1>3 DEF JobType
  <2> HIDE DEF k
  <2>3. job'[p] = k /\ \A q \in Procs \ {p} : job'[q] = job[q]
    BY <1>6 DEF Set, TypeInv, JobsReady
  <2>4. ASSUME NEW r \in Procs, writing'[<<f, "plain">>] = r PROVE job'[r].data.key \in unguarded'
    <3>1. writing[<<f, "plain">>] = r
      BY <1>2, <2>4
    <3>2. r # p
      <4>1. <<f, "plain">> \in Paths
        BY DEF Paths, Forms
      <4> QED
        BY <1>2, <3>1, <4>1 DEF TypeInv, Handles
    <3> QED
      BY <1>6, <2>3, <3>1, <3>2 DEF HalfWritten
  <2>5. SourceKept(p)'
    BY <1>2, <1>6, <2>1, <2>2, <2>3, <2>4 DEF SourceKept, Plain, c
  <2>6. WritesWell(p)'
    BY <2>2, <2>3, <2>5 DEF WritesWell
  <2> QED
    BY <1>2, <2>2, <2>3, <2>6, QuietSafe
<1> QED
  BY <1>2, <1>4, <1>5, <1>6, ReturnSafe

\* A file that is not there, or damaged, holds no key.
LEMMA NoKey == Torn \notin Keys /\ NoFile.key \notin Keys /\ Fragment.key = Torn
BY Bounds DEF Keys, Torn, NoFile, Fragment

\* The two forms of a file are two paths.
LEMMA TwoForms == \A f, g : <<f, "plain">> # <<g, "sealed">>
OBVIOUS

\* The sealed file a command is busy with is no other command's.
LEMMA BusyPaths ==
    ASSUME TypeInv, NEW p \in Procs, NEW q \in Procs \ {p}, Busy(job[p]), Busy(job[q])
    PROVE  <<job[q].file, "sealed">> # <<job[p].file, "sealed">>
BY DEF TypeInv, Apart

\* Which file a command is at.
LEMMA JobPaths ==
    ASSUME TypeInv, NEW p \in Procs, job[p].phase \in {"make", "fill", "verify", "remove"}
    PROVE  /\ job[p].file \in Files /\ job[p].form \in Forms
           /\ <<job[p].file, "plain">> \in Paths /\ <<job[p].file, "sealed">> \in Paths
           /\ Path(p) \in Paths /\ Path(p) = <<job[p].file, job[p].form>>
           /\ <<job[p].file, "plain">> # <<job[p].file, "sealed">>
<1>1. job[p].file \in Files /\ job[p].form \in Forms
  BY DEF TypeInv, JobsReady, Ready, JobType
<1> QED
  BY <1>1 DEF Paths, Forms, Path

\* A damaged file is removed, and no other.
LEMMA VerifySafe == ASSUME TypeInv, SafeInv, NEW p \in Procs, Verify(p) PROVE SafeInv'
<1>1. /\ job[p].phase = "verify" /\ job[p] \in JobType /\ Ready(job[p], commands)
      /\ UNCHANGED <<writing, faults, commands, unguarded, mixed>> /\ WritesWell(p)
      /\ job[p].form = "sealed" /\ Busy(job[p])
  BY DEF Verify, TypeInv, JobsReady, SafeInv, Ready, Busy
<1>2. job[p].file \in Files /\ Path(p) = <<job[p].file, "sealed">> /\ Path(p) \in Paths
  BY <1>1, JobPaths
<1> DEFINE k == [job[p] EXCEPT !.phase = "remove"]
<1>3. CASE ReadsBack(p) /\ job[p].cmd = "seal"
  <2>1. Set(p, k) /\ UNCHANGED <<disk, kept>> /\ disk[Path(p)] = job[p].data
    BY <1>3 DEF Verify, ReadsBack
  <2>2. /\ k.phase = "remove" /\ k.file = job[p].file /\ k.data = job[p].data /\ k.cmd = "seal"
    BY <1>1, <1>3 DEF JobType
  <2> HIDE DEF k
  <2>3. job'[p] = k /\ \A q \in Procs \ {p} : job'[q] = job[q]
    BY <2>1 DEF Set, TypeInv, JobsReady
  <2>4. SourceKept(p)'
    <3>1. SourceKept(p)
      BY <1>1, <1>3 DEF WritesWell
    <3>2. \A r \in Procs : job'[r].data = job[r].data
      BY <2>2, <2>3
    <3> QED
      BY <1>1, <2>1, <2>2, <2>3, <3>1, <3>2, SourceStable
  <2>5. WritesWell(p)'
    BY <1>2, <2>1, <2>2, <2>3, <2>4 DEF WritesWell, Sealed
  <2> QED
    BY <1>1, <2>1, <2>2, <2>3, <2>5, QuietSafe
<1>4. job'[p] = Done(job[p]) => job'[p].phase = "done" /\ WritesWell(p)'
  BY <1>1, DoneReady DEF WritesWell
<1>5. CASE ReadsBack(p) /\ job[p].cmd # "seal"
  <2>1. /\ job'[p] = Done(job[p]) /\ (\A q \in Procs \ {p} : job'[q] = job[q])
        /\ disk' = disk /\ disk[Path(p)] = job[p].data /\ kept' = kept \cup {job[p].data.key}
    BY <1>5 DEF Verify, ReadsBack, Return, Set, TypeInv, JobsReady
  <2>2. \A q \in Procs \ {p} : WritesWell(q)'
    BY <1>1, <1>4, <2>1, QuietOthers DEF SafeInv
  <2>3. KeyKept'
    <3> SUFFICES ASSUME NEW key \in kept \cup {job[p].data.key}, key \notin unguarded
                 PROVE  \E x \in Paths : disk[x].key = key
      BY <1>1, <2>1 DEF KeyKept, OnDisk
    <3>1. CASE key \in kept
      BY <3>1 DEF SafeInv, KeyKept, OnDisk
    <3>2. CASE key = job[p].data.key
      BY <1>2, <2>1, <3>2
    <3> QED
      BY <3>1, <3>2
  <2> QED
    BY <1>4, <2>1, <2>2, <2>3 DEF SafeInv
<1>6. CASE ~ReadsBack(p) /\ disk' = disk
  BY <1>1, <1>6, ReturnSafe DEF Verify
<1>7. CASE ~ReadsBack(p) /\ disk' = [disk EXCEPT ![Path(p)] = NoFile]
  <2>1. /\ job'[p] = Done(job[p]) /\ (\A q \in Procs \ {p} : job'[q] = job[q]) /\ kept' = kept
    BY <1>7 DEF Verify, Return, Set, TypeInv, JobsReady
  <2>2. disk[Path(p)] = Fragment
    BY <1>1, <1>2, <1>7 DEF WritesWell, ReadsBack, Sealed
  <2>3. \A x \in Paths : x # Path(p) => disk'[x] = disk[x]
    BY <1>7 DEF TypeInv, FilesType
  <2>4. KeyKept'
    <3> SUFFICES ASSUME NEW key \in kept, key \notin unguarded
                 PROVE  \E x \in Paths : disk'[x].key = key
      BY <1>1, <2>1 DEF KeyKept, OnDisk
    <3>1. PICK x \in Paths : disk[x].key = key
      BY DEF SafeInv, KeyKept, OnDisk
    <3>2. x # Path(p)
      BY <2>2, <3>1, NoKey DEF TypeInv, HistoryType
    <3> QED
      BY <2>3, <3>1, <3>2
  <2>5. ASSUME NEW q \in Procs \ {p} PROVE WritesWell(q)'
    <3>1. WritesWell(q) /\ job'[q] = job[q]
      BY <2>1 DEF SafeInv
    <3>2. ASSUME job[q].phase \in {"make", "fill", "verify", "remove"}, SourceKept(q)
          PROVE  SourceKept(q)'
      <4>1. <<job[q].file, "plain">> \in Paths /\ <<job[q].file, "plain">> # Path(p)
        BY <1>2, <3>2, JobPaths, TwoForms
      <4>2. ASSUME NEW r \in Procs, writing'[<<job[q].file, "plain">>] = r
            PROVE  writing[<<job[q].file, "plain">>] = r /\ job'[r].data = job[r].data
        <5>1. writing[<<job[q].file, "plain">>] = r /\ job[r].phase = "fill"
          BY <1>1, <4>1, <4>2 DEF TypeInv, Handles
        <5> QED
          BY <1>1, <2>1, <5>1
      <4> QED
        BY <1>1, <2>3, <3>1, <3>2, <4>1, <4>2, SourceStable
    <3>3. ASSUME Settled(job[q].file), job[q].phase = "make" PROVE Settled(job[q].file)'
      <4>1. <<job[q].file, "sealed">> # Path(p) /\ <<job[q].file, "sealed">> \in Paths
        BY <1>1, <3>3, JobPaths DEF Settled
      <4>2. Sealed(job[q].file)' # NoFile
        BY <2>3, <3>1, <3>3, <4>1 DEF Settled, Sealed
      <4>3. ASSUME NEW r \in Procs, job'[r].phase \in {"fill", "verify"}
            PROVE  Path(r)' # <<job'[q].file, "sealed">>
        <5>1. r # p /\ job'[r] = job[r]
          BY <1>4, <2>1, <4>3
        <5> QED
          BY <3>1, <3>3, <4>3, <5>1 DEF Settled, Path
      <4> QED
        BY <4>2, <4>3 DEF Settled
    <3>4. ASSUME job[q].phase \in {"verify", "remove"} PROVE Sealed(job[q].file)' = Sealed(job[q].file)
      <4>1. Busy(job[q]) /\ <<job[q].file, "sealed">> \in Paths
        BY <3>4, JobPaths DEF Busy, TypeInv, JobsReady, Ready
      <4> QED
        BY <1>1, <1>2, <2>3, <3>1, <4>1, BusyPaths DEF Sealed
    <3>5. job[q].phase = "fill" => writing'[Path(q)'] = writing[Path(q)]
      BY <1>1, <3>1 DEF Path
    <3> QED
      BY <1>1, <3>1, <3>2, <3>3, <3>4, <3>5 DEF WritesWell
  <2> QED
    BY <1>4, <2>1, <2>4, <2>5 DEF SafeInv
<1> QED
  BY <1>3, <1>5, <1>6, <1>7 DEF Verify

\* create_new fails where a file is, so that nothing is overwritten.
LEMMA MakeSafe == ASSUME TypeInv, SafeInv, NEW p \in Procs, Make(p) PROVE SafeInv'
<1>1. /\ job[p].phase = "make" /\ job[p] \in JobType /\ Ready(job[p], commands) /\ WritesWell(p)
      /\ UNCHANGED <<faults, commands, kept, unguarded, mixed>>
  BY DEF Make, TypeInv, JobsReady, SafeInv
<1>2. CASE ~CreateNew(p)
  BY <1>1, <1>2, ReturnSafe DEF Make
<1>3. CASE CreateNew(p)
  <2> DEFINE k == [job[p] EXCEPT !.phase = "fill"]
  <2>1. /\ Set(p, k) /\ disk' = [disk EXCEPT ![Path(p)] = Fragment] /\ disk[Path(p)] = NoFile
        /\ writing' = [writing EXCEPT ![Path(p)] = p]
    BY <1>3 DEF Make, CreateNew
  <2>2. /\ k.phase = "fill" /\ k.cmd = job[p].cmd /\ k.form = job[p].form
        /\ k.file = job[p].file /\ k.data = job[p].data
    BY <1>1 DEF JobType
  <2> HIDE DEF k
  <2>3. /\ job'[p] = k /\ (\A q \in Procs \ {p} : job'[q] = job[q])
        /\ \A q \in Procs : job'[q].data = job[q].data /\ job'[q].file = job[q].file
    BY <2>1, <2>2 DEF Set, TypeInv, JobsReady
  <2>4. Path(p) \in Paths /\ \A q \in Procs : Path(q)' = Path(q)
    BY <1>1, <2>2, <2>3, JobPaths DEF Path
  <2>5. /\ writing'[Path(p)] = p
        /\ \A x \in Paths : x # Path(p) => disk'[x] = disk[x] /\ writing'[x] = writing[x]
    BY <2>1, <2>4 DEF TypeInv, FilesType
  <2>6. KeyKept'
    <3> SUFFICES ASSUME NEW key \in kept, key \notin unguarded
                 PROVE  \E x \in Paths : disk'[x].key = key
      BY <1>1 DEF KeyKept, OnDisk
    <3>1. PICK x \in Paths : disk[x].key = key
      BY DEF SafeInv, KeyKept, OnDisk
    <3>2. x # Path(p)
      BY <2>1, <3>1, NoKey DEF TypeInv, HistoryType
    <3> QED
      BY <2>5, <3>1, <3>2
  <2>7. ASSUME NEW q \in Procs, job[q].phase \in {"make", "fill", "verify", "remove"}, SourceKept(q)
        PROVE  SourceKept(q)'
    <3>1. <<job[q].file, "plain">> \in Paths
      BY <2>7, JobPaths
    <3>2. <<job[q].file, "plain">> # Path(p)
      BY <2>1, <2>7 DEF SourceKept, Plain
    <3> QED
      BY <1>1, <2>3, <2>5, <2>7, <3>1, <3>2, SourceStable
  <2>8. WritesWell(p)'
    <3>1. ASSUME job[p].cmd = "seal" PROVE SourceKept(p)'
      <4>1. job[p].form = "sealed"
        BY <1>1, <3>1 DEF Ready
      <4>2. ~Settled(job[p].file)
        BY <2>1, <4>1 DEF Settled, Sealed, Path
      <4> QED
        BY <1>1, <2>7, <3>1, <4>2 DEF WritesWell
    <3> QED
      BY <2>2, <2>3, <2>4, <2>5, <3>1 DEF WritesWell
  <2>9. ASSUME NEW q \in Procs \ {p} PROVE WritesWell(q)'
    <3>1. WritesWell(q) /\ job'[q] = job[q]
      BY <2>3 DEF SafeInv
    <3>2. ASSUME job[q].phase = "fill", writing[Path(q)] = q PROVE writing'[Path(q)] = q
      <4>1. Path(q) \in Paths
        BY <3>2, JobPaths
      <4>2. disk[Path(q)] = Fragment
        BY <3>2, <4>1 DEF TypeInv, Handles
      <4> QED
        BY <2>1, <2>5, <3>2, <4>1, <4>2, Bounds
    <3>3. ASSUME Busy(job[q]) PROVE Sealed(job[q].file)' = Sealed(job[q].file)
      <4>1. Sealed(job[q].file) # NoFile /\ <<job[q].file, "sealed">> \in Paths
        BY <3>3, JobPaths DEF TypeInv, Apart, Busy
      <4> QED
        BY <2>1, <2>3, <2>5, <4>1 DEF Sealed
    <3>4. job[q].phase \in {"verify", "remove"} => Busy(job[q])
      BY DEF Busy, TypeInv, JobsReady, Ready
    <3>5. ASSUME Settled(job[q].file), job[q].phase = "make" PROVE Settled(job[q].file)'
      <4>1. <<job[q].file, "sealed">> \in Paths /\ <<job[q].file, "sealed">> # Path(p)
        BY <2>1, <3>5, JobPaths DEF Settled, Sealed
      <4>2. Sealed(job[q].file)' # NoFile
        BY <2>3, <2>5, <3>5, <4>1 DEF Settled, Sealed
      <4>3. ASSUME NEW r \in Procs, job'[r].phase \in {"fill", "verify"}
            PROVE  Path(r)' # <<job'[q].file, "sealed">>
        <5>1. CASE r = p
          BY <2>4, <3>1, <4>1, <5>1
        <5>2. CASE r # p
          BY <2>3, <2>4, <3>1, <3>5, <4>3, <5>2 DEF Settled
        <5> QED
          BY <5>1, <5>2
      <4> QED
        BY <4>2, <4>3 DEF Settled
    <3> QED
      BY <1>1, <2>4, <2>7, <3>1, <3>2, <3>3, <3>4, <3>5 DEF WritesWell
  <2> QED
    BY <2>6, <2>8, <2>9 DEF SafeInv
<1> QED
  BY <1>2, <1>3

\* A step that writes to its own new file, or closes it, leaves the others as they
\* were: a plaintext that was read empty gets a key that is unguarded.
LEMMA CloseOthers ==
    ASSUME TypeInv, SafeInv, NEW p \in Procs, writing' = Close(p),
           \A q \in Procs \ {p} : job'[q] = job[q],
           unguarded \subseteq unguarded',
           \/ disk' = disk
           \/ /\ job[p].phase = "fill" /\ writing[Path(p)] = p
              /\ \E c : /\ c.key \in {job[p].data.key, Torn} /\ c # NoFile
                        /\ disk' = [disk EXCEPT ![Path(p)] = c],
           job'[p].phase \in {"fill", "verify"} => job[p].phase = "fill" /\ Path(p)' = Path(p),
           NEW q \in Procs \ {p}
    PROVE  WritesWell(q)'
<1>1. WritesWell(q) /\ job'[q] = job[q] /\ Path(q)' = Path(q)
  BY DEF SafeInv, Path
<1>2. \A x \in Paths : writing'[x] = IF writing[x] = p THEN NoOne ELSE writing[x]
  BY DEF Close
<1>3. \A x \in Paths : disk'[x] # disk[x] =>
        /\ job[p].phase = "fill" /\ writing[x] = p /\ x = Path(p) /\ disk[x] = Fragment
        /\ disk'[x].key \in {job[p].data.key, Torn} /\ disk'[x] # NoFile
  <2>1. CASE disk' = disk
    BY <2>1
  <2>2. CASE /\ job[p].phase = "fill" /\ writing[Path(p)] = p
             /\ \E c : /\ c.key \in {job[p].data.key, Torn} /\ c # NoFile
                       /\ disk' = [disk EXCEPT ![Path(p)] = c]
    <3>1. Path(p) \in Paths
      BY <2>2, JobPaths
    <3>2. disk[Path(p)] = Fragment
      BY <2>2, <3>1 DEF TypeInv, Handles
    <3> QED
      BY <2>2, <3>1, <3>2 DEF TypeInv, FilesType
  <2> QED
    BY <2>1, <2>2
<1>4. ASSUME job[q].phase \in {"make", "fill", "verify", "remove"}, SourceKept(q) PROVE SourceKept(q)'
  <2> DEFINE x == <<job[q].file, "plain">>
  <2>1. x \in Paths
    BY <1>4, JobPaths
  <2>2. ASSUME NEW r \in Procs, writing'[x] = r
        PROVE  writing[x] = r /\ r # p /\ job'[r].data = job[r].data
    BY <1>2, <2>1, <2>2, ProcAssumption
  <2>3. CASE disk'[x] = disk[x]
    BY <1>1, <1>4, <2>2, <2>3, SourceStable
  <2>4. CASE disk'[x] # disk[x]
    <3>1. /\ writing[x] = p /\ disk[x] = Fragment /\ disk'[x].key \in {job[p].data.key, Torn}
          /\ disk'[x] # NoFile
      BY <1>3, <2>1, <2>4
    <3>2. job[q].data.key = Torn /\ job[p].data.key \in unguarded
      BY <1>4, <3>1, NoKey DEF SourceKept, Plain
    <3>3. \A r \in Procs : writing'[x] # r
      BY <2>2, <3>1
    <3>4. disk'[<<job'[q].file, "plain">>] # NoFile /\ disk'[<<job'[q].file, "plain">>].key \in unguarded' \cup {Torn}
      BY <1>1, <3>1, <3>2
    <3>5. job'[q].data.key = Torn /\ \A r \in Procs : writing'[<<job'[q].file, "plain">>] # r
      BY <1>1, <3>2, <3>3
    <3> QED
      BY <3>4, <3>5 DEF SourceKept, Plain
  <2> QED
    BY <2>3, <2>4
<1>5. ASSUME job[q].phase = "fill", writing[Path(q)] = q PROVE writing'[Path(q)] = q
  BY <1>2, <1>5, JobPaths
<1>6. ASSUME job[q].phase \in {"verify", "remove"} PROVE Sealed(job[q].file)' = Sealed(job[q].file)
  <2>1. Busy(job[q]) /\ <<job[q].file, "sealed">> \in Paths
    BY <1>6, JobPaths DEF Busy, TypeInv, JobsReady, Ready
  <2>2. ASSUME disk'[<<job[q].file, "sealed">>] # disk[<<job[q].file, "sealed">>] PROVE FALSE
    <3>1. job[p].phase = "fill" /\ <<job[q].file, "sealed">> = Path(p)
      BY <1>3, <2>1, <2>2
    <3>2. Busy(job[p]) /\ job[p].file = job[q].file
      BY <3>1 DEF Path, Busy
    <3> QED
      BY <2>1, <3>2, BusyPaths
  <2> QED
    BY <1>1, <2>2 DEF Sealed
<1>7. ASSUME job[q].phase = "make", Settled(job[q].file) PROVE Settled(job[q].file)'
  <2>1. <<job[q].file, "sealed">> \in Paths
    BY <1>7, JobPaths
  <2>2. Sealed(job[q].file)' # NoFile
    BY <1>1, <1>3, <1>7, <2>1 DEF Settled, Sealed
  <2>3. ASSUME NEW r \in Procs, job'[r].phase \in {"fill", "verify"}
        PROVE  Path(r)' # <<job'[q].file, "sealed">>
    <3>1. CASE r = p
      BY <1>1, <1>7, <2>3, <3>1 DEF Settled
    <3>2. CASE r # p
      <4>1. job'[r] = job[r] /\ Path(r)' = Path(r)
        BY <3>2 DEF Path
      <4> QED
        BY <1>1, <1>7, <2>3, <4>1 DEF Settled
    <3> QED
      BY <3>1, <3>2
  <2> QED
    BY <2>2, <2>3 DEF Settled
<1> QED
  BY <1>1, <1>4, <1>5, <1>6, <1>7 DEF WritesWell

\* What is written is what was to be written, or is found out when it is read back,
\* or is a plain file's and unguarded.
LEMMA FillSafe ==
    ASSUME TypeInv, SafeInv, NEW p \in Procs, Fill(p) \/ FillFails(p) \/ FillDamaged(p)
    PROVE  SafeInv'
<1>1. /\ job[p].phase = "fill" /\ job[p] \in JobType /\ Ready(job[p], commands) /\ WritesWell(p)
      /\ writing' = Close(p) /\ unguarded \subseteq unguarded' /\ job[p].data \in Contents
  BY DEF Fill, FillFails, FillDamaged, TypeInv, JobsReady, SafeInv, Ready
<1>2. /\ Path(p) \in Paths
      /\ job[p].form = "plain" \/ job[p].form = "sealed"
      /\ <<job[p].file, "plain">> \in Paths
      /\ job[p].form = "sealed" => Path(p) = <<job[p].file, "sealed">>
      /\ Fragment.key = Torn /\ Fragment # NoFile /\ job[p].data # NoFile
  BY <1>1, JobPaths, NoKey, Bounds DEF Forms
<1>3. PICK c \in {job[p].data, Fragment} : Put(p, c) /\ (Fill(p) => c = job[p].data)
  BY DEF Fill, FillFails, FillDamaged
<1>4. \/ writing[Path(p)] # p /\ disk' = disk
      \/ writing[Path(p)] = p /\ disk' = [disk EXCEPT ![Path(p)] = c]
  BY <1>3 DEF Put
<1> DEFINE k == [job[p] EXCEPT !.phase = "verify"]
<1>5. \/ Set(p, Done(job[p]))
      \/ job[p].form = "sealed" /\ Set(p, k)
  BY <1>2 DEF Fill, FillFails, FillDamaged, Filled, Return
<1>6. /\ Done(job[p]).phase = "done"
      /\ k.phase = "verify" /\ k.file = job[p].file /\ k.form = job[p].form
      /\ k.data = job[p].data /\ k.cmd = job[p].cmd
  BY <1>1, DoneReady DEF JobType
<1> HIDE DEF k
<1>7. /\ \A q \in Procs \ {p} : job'[q] = job[q]
      /\ job'[p] = Done(job[p]) \/ (job[p].form = "sealed" /\ job'[p] = k)
  BY <1>5 DEF Set, TypeInv, JobsReady
<1>8. job'[p].phase \in {"fill", "verify"} => Path(p)' = Path(p)
  BY <1>6, <1>7 DEF Path
<1>9. \A q \in Procs \ {p} : WritesWell(q)'
  BY <1>1, <1>2, <1>3, <1>4, <1>7, <1>8, CloseOthers
<1>10. WritesWell(p)'
  <2>1. CASE job'[p] = Done(job[p])
    BY <1>6, <2>1 DEF WritesWell
  <2>2. CASE job[p].form = "sealed" /\ job'[p] = k
    <3>1. writing[Path(p)] = p
      BY <1>1, <2>2 DEF WritesWell
    <3>2. disk'[<<job[p].file, "sealed">>] \in {job[p].data, Fragment}
      BY <1>2, <1>4, <2>2, <3>1 DEF TypeInv, FilesType
    <3>3. ASSUME job[p].cmd = "seal" PROVE SourceKept(p)'
      <4>1. SourceKept(p)
        BY <1>1, <3>3 DEF WritesWell
      <4>2. disk'[<<job[p].file, "plain">>] = disk[<<job[p].file, "plain">>]
        BY <1>2, <1>4, <2>2, TwoForms DEF TypeInv, FilesType
      <4>3. \A r \in Procs : writing'[<<job[p].file, "plain">>] = r => writing[<<job[p].file, "plain">>] = r
        BY <1>1, <1>2, ProcAssumption DEF Close
      <4>4. \A r \in Procs : job'[r].data = job[r].data
        BY <1>6, <1>7, <2>2
      <4> QED
        BY <1>1, <1>6, <2>2, <4>1, <4>2, <4>3, <4>4, SourceStable
    <3> QED
      BY <1>6, <2>2, <3>2, <3>3 DEF WritesWell, Sealed
  <2> QED
    BY <1>7, <2>1, <2>2
<1>11. KeyKept'
  <2>1. ASSUME NEW key \in kept, key \notin unguarded PROVE \E x \in Paths : disk'[x].key = key
    <3>1. PICK x \in Paths : disk[x].key = key
      BY <2>1 DEF SafeInv, KeyKept, OnDisk
    <3>2. CASE disk' = disk
      BY <3>1, <3>2
    <3>3. CASE writing[Path(p)] = p /\ disk' = [disk EXCEPT ![Path(p)] = c]
      <4>1. disk[Path(p)] = Fragment
        BY <1>2, <3>3 DEF TypeInv, Handles
      <4>2. x # Path(p)
        BY <2>1, <3>1, <4>1, NoKey DEF TypeInv, HistoryType
      <4> QED
        BY <1>2, <3>1, <3>3, <4>2 DEF TypeInv, FilesType
    <3> QED
      BY <1>4, <3>2, <3>3
  <2>2. kept' = kept \/ (job[p].form = "plain" /\ kept' = kept \cup {job[p].data.key})
    BY DEF Fill, FillFails, FillDamaged, Filled
  <2>3. ASSUME kept' # kept, job[p].data.key \notin unguarded'
        PROVE  \E x \in Paths : disk'[x].key = job[p].data.key
    <3>1. Fill(p)
      BY <2>2, <2>3 DEF FillFails, FillDamaged
    <3>2. writing[Path(p)] = p
      BY <1>1, <2>3 DEF WritesWell
    <3>3. disk'[Path(p)] = job[p].data
      BY <1>2, <1>3, <1>4, <3>1, <3>2 DEF TypeInv, FilesType
    <3> QED
      BY <1>2, <3>3
  <2> SUFFICES ASSUME NEW key \in kept', key \notin unguarded'
               PROVE  \E x \in Paths : disk'[x].key = key
    BY DEF KeyKept, OnDisk
  <2>4. CASE key \in kept
    BY <1>1, <2>1, <2>4
  <2>5. CASE key \notin kept
    BY <2>2, <2>3, <2>5
  <2> QED
    BY <2>4, <2>5
<1> QED
  BY <1>9, <1>10, <1>11 DEF SafeInv

LEMMA CrashSafe == ASSUME TypeInv, SafeInv, NEW p \in Procs, Crash(p) PROVE SafeInv'
<1>1. /\ job'[p] = Idle /\ (\A q \in Procs \ {p} : job'[q] = job[q])
      /\ writing' = Close(p) /\ disk' = disk /\ kept' = kept /\ unguarded' = unguarded
  BY DEF Crash, Set, TypeInv, JobsReady
<1>2. WritesWell(p)' /\ job'[p].phase \notin {"fill", "verify"}
  BY <1>1 DEF WritesWell, Idle
<1>3. \A q \in Procs \ {p} : WritesWell(q)'
  BY <1>1, <1>2, CloseOthers
<1>4. KeyKept'
  BY <1>1 DEF SafeInv, KeyKept, OnDisk
<1> QED
  BY <1>2, <1>3, <1>4 DEF SafeInv

\* The plaintext goes only when the sealed file holds its key.
LEMMA RemoveSafe ==
    ASSUME TypeInv, SafeInv, NEW p \in Procs, Remove(p) \/ RemoveFails(p)
    PROVE  SafeInv'
<1> DEFINE x == <<job[p].file, "plain">>
           y == <<job[p].file, "sealed">>
<1>1. /\ job[p].phase = "remove" /\ job[p] \in JobType /\ Ready(job[p], commands) /\ WritesWell(p)
      /\ UNCHANGED <<commands, kept, unguarded, mixed>>
  BY DEF Remove, RemoveFails, TypeInv, JobsReady, SafeInv
<1>2. /\ job[p].form = "sealed" /\ job[p].cmd = "seal" /\ job[p].pw \in Passwords
      /\ Busy(job[p]) /\ SourceKept(p) /\ disk[y] = job[p].data /\ job[p].data \in Contents
  BY <1>1 DEF Ready, Busy, WritesWell, Sealed
<1>3. x \in Paths /\ y \in Paths /\ x # y /\ Path(p) = y
  BY <1>1, <1>2, JobPaths
<1>4. CASE Return(p) /\ UNCHANGED <<disk, writing>>
  BY <1>1, <1>4, ReturnSafe
<1>5. CASE /\ disk' = [disk EXCEPT ![x] = NoFile] /\ writing' = [writing EXCEPT ![x] = NoOne]
           /\ NextFile(p, job[p])
  <2>1. PICK k \in JobType : Set(p, k) /\ k.phase \in {"done", "look", "read"}
    BY <1>1, <1>2, <1>5, NextFileReady
  <2>2. /\ job'[p].phase \in {"done", "look", "read"} /\ \A q \in Procs \ {p} : job'[q] = job[q]
    BY <2>1 DEF Set, TypeInv, JobsReady
  <2>3. /\ writing'[x] = NoOne
        /\ \A z \in Paths : z # x => disk'[z] = disk[z] /\ writing'[z] = writing[z]
    BY <1>3, <1>5 DEF TypeInv, FilesType
  <2>4. WritesWell(p)'
    BY <2>2 DEF WritesWell
  <2>5. KeyKept'
    <3> SUFFICES ASSUME NEW key \in kept, key \notin unguarded
                 PROVE  \E z \in Paths : disk'[z].key = key
      BY <1>1 DEF KeyKept, OnDisk
    <3>1. PICK z \in Paths : disk[z].key = key
      BY DEF SafeInv, KeyKept, OnDisk
    <3>2. key # Torn
      BY NoKey DEF TypeInv, HistoryType
    <3>3. CASE z # x
      BY <2>3, <3>1, <3>3
    <3>4. CASE z = x
      <4>1. job[p].data.key = key
        BY <1>2, <3>1, <3>2, <3>4 DEF SourceKept, Plain
      <4> QED
        BY <1>2, <1>3, <2>3, <4>1
    <3> QED
      BY <3>3, <3>4
  <2>6. ASSUME NEW q \in Procs \ {p} PROVE WritesWell(q)'
    <3>1. WritesWell(q) /\ job'[q] = job[q] /\ Path(q)' = Path(q)
      BY <2>2 DEF SafeInv, Path
    <3>2. ASSUME Busy(job[q]) PROVE job[q].file # job[p].file
      BY <1>2, <3>2 DEF TypeInv, Apart
    <3>3. ASSUME job[q].phase \in {"make", "fill", "verify", "remove"}, job[q].file # job[p].file,
                 SourceKept(q)
          PROVE  SourceKept(q)'
      <4>1. <<job[q].file, "plain">> \in Paths /\ <<job[q].file, "plain">> # x
        BY <3>3, JobPaths
      <4>2. ASSUME NEW r \in Procs, writing'[<<job[q].file, "plain">>] = r
            PROVE  writing[<<job[q].file, "plain">>] = r /\ job'[r].data = job[r].data
        <5>1. writing[<<job[q].file, "plain">>] = r /\ job[r].phase = "fill"
          BY <2>3, <4>1, <4>2 DEF TypeInv, Handles
        <5> QED
          BY <1>1, <2>2, <5>1
      <4> QED
        BY <1>1, <2>3, <3>1, <3>3, <4>1, <4>2, SourceStable
    <3>4. ASSUME job[q].phase = "fill", writing[Path(q)] = q
          PROVE  writing'[Path(q)] = q \/ (job[q].form = "plain" /\ job[q].data.key \in unguarded)
      <4>1. Path(q) \in Paths /\ disk[Path(q)] = Fragment
        BY <3>4, JobPaths DEF TypeInv, Handles
      <4>2. CASE Path(q) # x
        BY <2>3, <3>4, <4>1, <4>2
      <4>3. CASE Path(q) = x
        <5>1. job[q].form = "plain"
          BY <4>3 DEF Path
        <5>2. job[p].data.key = Torn
          BY <1>2, <4>1, <4>3, NoKey DEF SourceKept, Plain
        <5> QED
          BY <1>2, <3>4, <4>3, <5>1, <5>2 DEF SourceKept
      <4> QED
        BY <4>2, <4>3
    <3>5. ASSUME job[q].phase \in {"make", "fill", "verify", "remove"}
          PROVE  Sealed(job[q].file)' = Sealed(job[q].file)
      <4>1. <<job[q].file, "sealed">> \in Paths /\ <<job[q].file, "sealed">> # x
        BY <3>5, JobPaths, TwoForms
      <4> QED
        BY <2>3, <3>1, <4>1 DEF Sealed
    <3>6. ASSUME job[q].phase = "make", Settled(job[q].file) PROVE Settled(job[q].file)'
      <4>1. Sealed(job[q].file)' # NoFile
        BY <3>5, <3>6 DEF Settled
      <4>2. ASSUME NEW r \in Procs, job'[r].phase \in {"fill", "verify"}
            PROVE  Path(r)' # <<job'[q].file, "sealed">>
        <5>1. r # p /\ job'[r] = job[r]
          BY <2>2, <4>2
        <5> QED
          BY <3>1, <3>6, <4>2, <5>1 DEF Settled, Path
      <4> QED
        BY <4>1, <4>2 DEF Settled
    <3>7. ASSUME job[q].phase = "make", job[q].file = job[p].file PROVE Settled(job[q].file)'
      <4>1. Sealed(job[q].file)' # NoFile
        BY <1>2, <3>5, <3>7, Bounds DEF Sealed
      <4>2. ASSUME NEW r \in Procs, job'[r].phase \in {"fill", "verify"}
            PROVE  Path(r)' # <<job'[q].file, "sealed">>
        <5>1. r # p /\ job'[r] = job[r]
          BY <2>2, <4>2
        <5>2. job[r].form = "sealed" => job[r].file # job[p].file
          BY <1>2, <4>2, <5>1 DEF TypeInv, Apart, Busy
        <5> QED
          BY <3>1, <3>7, <5>1, <5>2 DEF Path
      <4> QED
        BY <4>1, <4>2 DEF Settled
    <3>8. job[q].phase \in {"fill", "verify", "remove"} /\ job[q].cmd = "seal" => Busy(job[q])
      BY DEF Busy, TypeInv, JobsReady, Ready
    <3> QED
      BY <1>1, <3>1, <3>2, <3>3, <3>4, <3>5, <3>6, <3>7, <3>8 DEF WritesWell
  <2> QED
    BY <2>4, <2>5, <2>6 DEF SafeInv
<1> QED
  BY <1>4, <1>5 DEF Remove, RemoveFails

LEMMA InitSafe == Init => SafeInv
<1> SUFFICES ASSUME Init PROVE SafeInv
  OBVIOUS
<1>1. KeyKept
  BY DEF Init, KeyKept, OnDisk
<1>2. \A p \in Procs : WritesWell(p)
  BY DEF Init, WritesWell, Idle
<1> QED
  BY <1>1, <1>2 DEF SafeInv

LEMMA StepSafe == TypeInv /\ SafeInv /\ [Next]_vars => SafeInv'
<1> SUFFICES ASSUME TypeInv, SafeInv, [Next]_vars PROVE SafeInv'
  OBVIOUS
<1>1. ASSUME NEW p \in Procs, ProcStep(p) PROVE SafeInv'
  BY <1>1, EarlyStepsSafe, LookSafe, MakeSafe, FillSafe, VerifySafe, RemoveSafe, ReadFileSafe,
     CrashSafe DEF ProcStep
<1>2. CASE UNCHANGED vars
  BY <1>2 DEF vars, SafeInv, KeyKept, OnDisk, WritesWell, SourceKept, Settled, Plain, Sealed, Path
<1> QED
  BY <1>1, <1>2 DEF Next

\* No key is lost, whatever fails, is killed or runs at the same time (vault.rs
\* verifies the sealed file before it removes the plaintext), but for the plain
\* files that nothing reads back.
THEOREM KeyKeptHolds == Spec => []KeyKept
<1>1. SafeInv => KeyKept
  BY DEF SafeInv
<1> QED
  BY <1>1, VaultInvariance, InitSafe, StepSafe, PTL DEF Spec

-----------------------------------------------------------------------------
(***************************************************************************)
(* The backup page                                                         *)
(***************************************************************************)

\* A step that leaves its own job with a page that is its source's.
LEMMA PageSet ==
    ASSUME job \in [Procs -> JobType], PageUnderItsPassword, NEW p \in Procs, NEW k,
           Set(p, k), k.page = k.read
    PROVE  PageUnderItsPassword'
BY DEF Set, PageUnderItsPassword

\* A command that returns keeps its last page, for its user to compare.
LEMMA PageReturn ==
    ASSUME job \in [Procs -> JobType], PageUnderItsPassword, NEW p \in Procs, NEW j \in JobType,
           Set(p, Done(j)), j.page = j.read
    PROVE  PageUnderItsPassword'
<1>1. Idle \in JobType
  BY IdleReady
<1>2. Done(j).page = Done(j).read
  BY <1>1 DEF Done, JobType
<1> QED
  BY <1>2, PageSet

LEMMA PageNext ==
    ASSUME job \in [Procs -> JobType], PageUnderItsPassword, NEW p \in Procs, NEW j \in JobType,
           NextFile(p, j), j.page = j.read
    PROVE  PageUnderItsPassword'
<1>1. CASE j.todo = {}
  BY <1>1, PageReturn DEF NextFile
<1>2. CASE j.todo # {}
  <2> DEFINE phase == IF j.cmd = "seal" THEN "look" ELSE "read"
             k == [j EXCEPT !.phase = phase]
  <2>1. Set(p, k)
    BY <1>2 DEF NextFile
  <2> HIDE DEF phase
  <2>2. k.page = k.read
    BY DEF JobType
  <2> QED
    BY <2>1, <2>2, PageSet
<1> QED
  BY <1>1, <1>2

\* The page of a file is encrypted under the password that opened the file.
LEMMA PageOfSource ==
    ASSUME NEW j \in JobType, NEW c \in Contents \cup {NoFile}, NEW typed \in Passwords,
           IsEnvelope(c) => Opens(c, j.pw) \/ Opens(c, typed)
    PROVE  BackupPage(IF IsEnvelope(c) THEN Decrypt(j, c, typed) ELSE j, c) = c
<1>1. CASE ~IsEnvelope(c)
  BY <1>1 DEF BackupPage
<1>2. CASE IsEnvelope(c)
  <2>1. c \in Contents
    BY <1>2 DEF IsEnvelope, NoFile
  <2>2. Decrypt(j, c, typed).pw = c.pw
    BY <1>2 DEF Decrypt, Remembered, Opens, JobType
  <2>3. [key |-> c.key, pw |-> c.pw] = c
    BY <2>1 DEF Contents
  <2> QED
    BY <1>2, <2>2, <2>3 DEF BackupPage, Encrypt
<1> QED
  BY <1>1, <1>2

LEMMA PageRead ==
    ASSUME TypeInv, PageUnderItsPassword, NEW p \in Procs, NEW typed \in Passwords, ReadFile(p, typed)
    PROVE  PageUnderItsPassword'
<1>1. PICK f \in Files :
        LET c == Source(f)
            j == [job[p] EXCEPT !.todo = @ \ {f}]
            opened == IF IsEnvelope(c) THEN Decrypt(j, c, typed) ELSE j
        IN  IF \/ Plain(f) = NoFile /\ ~IsEnvelope(c)
               \/ IsEnvelope(c) /\ ~Opens(c, j.pw) /\ ~Opens(c, typed)
            THEN Return(p)
            ELSE NextFile(p, IF j.cmd = "print"
                             THEN [opened EXCEPT !.page = BackupPage(opened, c), !.read = c]
                             ELSE opened)
  BY DEF ReadFile
<1> DEFINE c == Source(f)
           j == [job[p] EXCEPT !.todo = job[p].todo \ {f}]
           opened == IF IsEnvelope(c) THEN Decrypt(j, c, typed) ELSE j
<1>2. job \in [Procs -> JobType] /\ job[p] \in JobType /\ job[p].page = job[p].read
  BY DEF TypeInv, JobsReady, PageUnderItsPassword
<1>3. c \in Contents \cup {NoFile}
  BY DEF Source, Plain, Sealed, Paths, Forms, TypeInv, FilesType
<1>4. j \in JobType /\ j.page = j.read
  BY <1>2 DEF JobType
<1>5. CASE Return(p)
  BY <1>2, <1>5, PageReturn DEF Return
<1>6. CASE ~Return(p)
  <2>1. /\ IsEnvelope(c) => Opens(c, j.pw) \/ Opens(c, typed)
        /\ NextFile(p, [opened EXCEPT !.page = BackupPage(opened, c), !.read = c])
           \/ NextFile(p, opened)
    BY <1>1, <1>6
  <2> HIDE DEF c, j
  <2>2. opened \in JobType /\ opened.page = opened.read
    BY <1>4 DEF JobType, Decrypt, Remembered
  <2>3. BackupPage(opened, c) = c
    BY <1>3, <1>4, <2>1, PageOfSource
  <2> HIDE DEF opened
  <2> DEFINE printed == [opened EXCEPT !.page = c, !.read = c]
  <2>4. printed \in JobType /\ printed.page = printed.read
    BY <1>3, <2>2 DEF JobType
  <2>5. NextFile(p, printed) \/ NextFile(p, opened)
    BY <2>1, <2>3
  <2> HIDE DEF printed
  <2> QED
    BY <1>2, <2>2, <2>4, <2>5, PageNext
<1> QED
  BY <1>5, <1>6

\* Nothing else makes a page.
LEMMA PageOther ==
    ASSUME TypeInv, PageUnderItsPassword, NEW p \in Procs,
           ProcStep(p), ~ \E pw \in Passwords : ReadFile(p, pw)
    PROVE  PageUnderItsPassword'
<1>1. job \in [Procs -> JobType] /\ job[p] \in JobType /\ job[p].page = job[p].read
  BY DEF TypeInv, JobsReady, PageUnderItsPassword
<1>2. Idle \in JobType /\ Idle.page = Idle.read
  BY IdleReady DEF Idle
<1>3. ASSUME Return(p) PROVE PageUnderItsPassword'
  BY <1>1, <1>3, PageReturn DEF Return
<1>4. ASSUME NEW f \in Files, NEW form \in Forms, StartCreate(p, f, form)
      PROVE  PageUnderItsPassword'
  <2> DEFINE k == [Idle EXCEPT !.cmd = "create", !.num = commands + 1, !.file = f, !.form = form,
                               !.phase = IF form = "plain" THEN "refuse" ELSE "ask"]
  <2>1. k.page = k.read
    BY <1>2 DEF JobType
  <2>2. Set(p, k)
    BY <1>4 DEF StartCreate
  <2> HIDE DEF k
  <2> QED
    BY <1>1, <2>1, <2>2, PageSet
<1>5. CASE StartSeal(p)
  <2> DEFINE k == [Idle EXCEPT !.cmd = "seal", !.form = "sealed", !.phase = "ask",
                               !.todo = {f \in Discover : ~IsSealed(f)}, !.found = Discover]
  <2>1. k.page = k.read
    BY <1>2 DEF JobType
  <2>2. Set(p, k)
    BY <1>5 DEF StartSeal
  <2> HIDE DEF k
  <2> QED
    BY <1>1, <2>1, <2>2, PageSet
<1>6. ASSUME NEW cmd, NEW fs, StartRead(p, cmd, fs) PROVE PageUnderItsPassword'
  <2> DEFINE k == [Idle EXCEPT !.cmd = cmd, !.phase = "read", !.todo = fs]
  <2>1. k.page = k.read
    BY <1>2 DEF JobType
  <2>2. Set(p, k)
    BY <1>6 DEF StartRead
  <2> HIDE DEF k
  <2> QED
    BY <1>1, <2>1, <2>2, PageSet
<1>7. ASSUME NEW pw, NEW reference, Ask(p, pw, reference) PROVE PageUnderItsPassword'
  <2> DEFINE found == IF job[p].cmd = "create" THEN Discover ELSE job[p].found
             j == [job[p] EXCEPT !.pw = pw, !.found = found]
             w == [j EXCEPT !.phase = IF j.cmd = "seal" THEN "look" ELSE "refuse"]
             c == [j EXCEPT !.phase = "check"]
  <2>1. Return(p) \/ Set(p, w) \/ Set(p, c)
    BY <1>7 DEF Ask, Writes
  <2> HIDE DEF found
  <2>2. w.page = w.read /\ c.page = c.read
    BY <1>1 DEF JobType
  <2> HIDE DEF w, c
  <2> QED
    BY <1>1, <1>3, <2>1, <2>2, PageSet
<1>8. CASE Check(p)
  <2>1. PICK f \in Files :
          LET j == [job[p] EXCEPT !.found = @ \ {f}]
          IN  Return(p) \/ Set(p, Writes(j)) \/ Set(p, j)
    BY <1>8 DEF Check
  <2> DEFINE j == [job[p] EXCEPT !.found = job[p].found \ {f}]
             w == [j EXCEPT !.phase = IF j.cmd = "seal" THEN "look" ELSE "refuse"]
  <2>2. Return(p) \/ Set(p, w) \/ Set(p, j)
    BY <2>1 DEF Writes
  <2>3. w.page = w.read /\ j.page = j.read
    BY <1>1 DEF JobType
  <2> HIDE DEF w, j
  <2> QED
    BY <1>1, <1>3, <2>2, <2>3, PageSet
<1>9. ASSUME NEW phase, NEW d, Set(p, [job[p] EXCEPT !.phase = phase, !.data = d])
      PROVE  PageUnderItsPassword'
  <2>1. [job[p] EXCEPT !.phase = phase, !.data = d].page = [job[p] EXCEPT !.phase = phase, !.data = d].read
    BY <1>1 DEF JobType
  <2> QED
    BY <1>1, <1>9, <2>1, PageSet
<1>10. ASSUME NEW phase, Set(p, [job[p] EXCEPT !.phase = phase]) PROVE PageUnderItsPassword'
  <2>1. [job[p] EXCEPT !.phase = phase].page = [job[p] EXCEPT !.phase = phase].read
    BY <1>1 DEF JobType
  <2> QED
    BY <1>1, <1>10, <2>1, PageSet
<1>11. CASE Refuse(p)
  BY <1>3, <1>9, <1>11 DEF Refuse
<1>12. CASE Look(p)
  <2>1. PICK f \in Files :
          LET c == Plain(f)
              j == [job[p] EXCEPT !.todo = @ \ {f}, !.file = f]
          IN  \/ NextFile(p, j)
              \/ Return(p)
              \/ Set(p, [j EXCEPT !.phase = "make",
                           !.data = IF IsEnvelope(c) THEN c ELSE Encrypt(c, j.pw)])
    BY <1>12 DEF Look
  <2> DEFINE j == [job[p] EXCEPT !.todo = job[p].todo \ {f}, !.file = f]
             data == IF IsEnvelope(Plain(f)) THEN Plain(f) ELSE Encrypt(Plain(f), j.pw)
             k == [j EXCEPT !.phase = "make", !.data = data]
  <2>2. NextFile(p, j) \/ Return(p) \/ Set(p, k)
    BY <2>1
  <2> HIDE DEF data
  <2>3. j \in JobType /\ j.page = j.read /\ k.page = k.read
    BY <1>1 DEF JobType
  <2> HIDE DEF j, k
  <2> QED
    BY <1>1, <1>3, <2>2, <2>3, PageNext, PageSet
<1>13. CASE Make(p)
  BY <1>3, <1>10, <1>13 DEF Make
<1>14. CASE Fill(p) \/ FillFails(p) \/ FillDamaged(p)
  BY <1>3, <1>10, <1>14 DEF Fill, FillFails, FillDamaged, Filled
<1>15. CASE Verify(p)
  BY <1>3, <1>10, <1>15 DEF Verify
<1>16. CASE Remove(p) \/ RemoveFails(p)
  <2>1. Return(p) \/ NextFile(p, job[p])
    BY <1>16 DEF Remove, RemoveFails
  <2> QED
    BY <1>1, <1>3, <2>1, PageNext
<1>17. CASE Crash(p)
  BY <1>1, <1>2, <1>17, PageSet DEF Crash
<1>18. CASE AskFails(p)
  BY <1>3, <1>18 DEF AskFails
<1> QED
  BY <1>4, <1>5, <1>6, <1>7, <1>8, <1>11, <1>12, <1>13, <1>14, <1>15, <1>16, <1>17, <1>18
  DEF ProcStep

LEMMA PageStep == TypeInv /\ PageUnderItsPassword /\ [Next]_vars => PageUnderItsPassword'
<1> SUFFICES ASSUME TypeInv, PageUnderItsPassword, [Next]_vars PROVE PageUnderItsPassword'
  OBVIOUS
<1>1. ASSUME NEW p \in Procs, ProcStep(p) PROVE PageUnderItsPassword'
  BY <1>1, PageRead, PageOther
<1>2. CASE UNCHANGED vars
  BY <1>2 DEF vars, PageUnderItsPassword
<1> QED
  BY <1>1, <1>2 DEF Next

\* Whatever passwords are remembered and typed as print goes from file to file, the
\* page it makes of a file (backup_page) is encrypted under that file's own.
THEOREM PageUnderItsPasswordHolds == Spec => []PageUnderItsPassword
<1>1. Init => PageUnderItsPassword
  BY DEF Init, PageUnderItsPassword, Idle
<1> QED
  BY <1>1, VaultInvariance, PageStep, PTL DEF Spec

-----------------------------------------------------------------------------
(***************************************************************************)
(* One tree, one password                                                  *)
(***************************************************************************)

\* A command that writes a sealed file, when it writes one.
Seals(j) == j.cmd \in {"create", "seal"} /\ j.form = "sealed"

\* Such a command runs alone.
Alone == \A p, q \in Procs : Seals(job[p]) /\ Seals(job[q]) => p = q

\* What is sealed opens with its password, once it has been checked; until then it
\* is a file that discover has found.
Agrees(j) ==
    \A f \in Files : IsEnvelope(Sealed(f)) =>
        /\ j.cmd = "seal" /\ j.phase = "ask" => f \in j.found
        /\ j.phase = "check" => f \in j.found \/ Sealed(f).pw = j.pw
        /\ j.phase \in {"refuse", "look", "make", "fill", "verify", "remove"} => Sealed(f).pw = j.pw

SamePassword ==
    mixed = {} => Alone /\ OnePassword /\ \A p \in Procs : Seals(job[p]) => Agrees(job[p])

\* What is no file and what is damaged is no envelope.
LEMMA NoEnvelope == ~IsEnvelope(NoFile) /\ ~IsEnvelope(Fragment)
BY DEF IsEnvelope, NoFile, Fragment

\* A command that has returned, or was killed, seals nothing.
LEMMA DoneSeals == ASSUME NEW j \in JobType PROVE ~Seals(Done(j)) /\ ~Seals(Idle)
BY DoneReady DEF Seals, Idle

\* A step that seals nothing, of a command that was sealing already if it is now.
LEMMA PwSet ==
    ASSUME TypeInv, SamePassword, NEW p \in Procs, NEW k, Set(p, k), mixed \subseteq mixed',
           \A f \in Files : IsEnvelope(Sealed(f)') => Sealed(f)' = Sealed(f),
           Seals(k) => Seals(job[p]),
           mixed = {} /\ mixed' = {} /\ Seals(k) => Agrees(k)
    PROVE  SamePassword'
<1> SUFFICES ASSUME mixed' = {}
             PROVE  Alone' /\ OnePassword' /\ \A q \in Procs : Seals(job'[q]) => Agrees(job[q])'
  BY DEF SamePassword, Seals
<1>1. mixed = {} /\ Alone /\ OnePassword /\ \A q \in Procs : Seals(job[q]) => Agrees(job[q])
  BY DEF SamePassword
<1>2. job'[p] = k /\ \A q \in Procs \ {p} : job'[q] = job[q]
  BY DEF Set, TypeInv, JobsReady
<1>3. \A q \in Procs : Seals(job'[q]) => Seals(job[q])
  BY <1>2
<1>4. Alone'
  BY <1>1, <1>3 DEF Alone, Seals
<1>5. OnePassword'
  BY <1>1 DEF OnePassword, IsEnvelope
<1>6. ASSUME NEW q \in Procs, Seals(job'[q]) PROVE Agrees(job[q])'
  <2>1. Agrees(job'[q])
    BY <1>1, <1>2, <1>6
  <2> QED
    BY <2>1 DEF Agrees, IsEnvelope
<1> QED
  BY <1>4, <1>5, <1>6

\* A sealing command starts; if mixed stays empty it is alone.
LEMMA PwStart ==
    ASSUME TypeInv, SamePassword, NEW p \in Procs, NEW k, Set(p, k), Overlap(p, "sealed"),
           UNCHANGED disk, Agrees(k)
    PROVE  SamePassword'
<1> SUFFICES ASSUME mixed' = {}
             PROVE  Alone' /\ OnePassword' /\ \A q \in Procs : Seals(job'[q]) => Agrees(job[q])'
  BY DEF SamePassword, Seals
<1>1. mixed = {} /\ \A q \in Procs \ {p} : ~Seals(job[q])
  BY DEF Overlap, Seals
<1>2. OnePassword
  BY <1>1 DEF SamePassword
<1>3. job'[p] = k /\ \A q \in Procs \ {p} : job'[q] = job[q]
  BY DEF Set, TypeInv, JobsReady
<1>4. Alone'
  BY <1>1, <1>3 DEF Alone, Seals
<1>5. OnePassword'
  BY <1>1, <1>2 DEF OnePassword, Sealed
<1>6. ASSUME NEW q \in Procs, Seals(job'[q]) PROVE Agrees(job[q])'
  <2>1. Agrees(job'[q])
    BY <1>1, <1>3, <1>6
  <2> QED
    BY <2>1 DEF Agrees, Sealed
<1> QED
  BY <1>4, <1>5, <1>6

LEMMA PwReturn ==
    ASSUME TypeInv, SamePassword, NEW p \in Procs, mixed \subseteq mixed',
           \A f \in Files : IsEnvelope(Sealed(f)') => Sealed(f)' = Sealed(f),
           NEW j \in JobType, Set(p, Done(j))
    PROVE  SamePassword'
<1>1. ~Seals(Done(j))
  BY DoneSeals
<1> QED
  BY <1>1, PwSet

\* On to the next file, of a command whose password agrees.
LEMMA PwNext ==
    ASSUME TypeInv, SamePassword, NEW p \in Procs, mixed \subseteq mixed',
           \A f \in Files : IsEnvelope(Sealed(f)') => Sealed(f)' = Sealed(f),
           NEW j \in JobType, NextFile(p, j), j.cmd = job[p].cmd, j.form = job[p].form,
           mixed = {} /\ Seals(j) => \A f \in Files : IsEnvelope(Sealed(f)) => Sealed(f).pw = j.pw
    PROVE  SamePassword'
<1>1. CASE j.todo = {}
  BY <1>1, PwReturn DEF NextFile
<1>2. CASE j.todo # {}
  <2> DEFINE phase == IF j.cmd = "seal" THEN "look" ELSE "read"
             k == [j EXCEPT !.phase = phase]
  <2>1. Set(p, k)
    BY <1>2 DEF NextFile
  <2>2. phase \in {"look", "read"}
    OBVIOUS
  <2> HIDE DEF phase
  <2>3. k.cmd = j.cmd /\ k.form = j.form /\ k.pw = j.pw /\ k.phase = phase
    BY DEF JobType
  <2> HIDE DEF k
  <2>4. Seals(k) => Seals(job[p]) /\ Seals(j)
    BY <2>3 DEF Seals
  <2>5. mixed = {} /\ mixed' = {} /\ Seals(k) => Agrees(k)
    BY <2>2, <2>3, <2>4 DEF Agrees
  <2> QED
    BY <2>1, <2>4, <2>5, PwSet
<1> QED
  BY <1>1, <1>2

LEMMA StartPw ==
    ASSUME TypeInv, SamePassword, NEW p \in Procs,
           \/ \E f \in Files, form \in Forms : StartCreate(p, f, form)
           \/ StartSeal(p)
           \/ \E cmd \in {"open", "print", "accounts"}, fs \in SUBSET Files : StartRead(p, cmd, fs)
    PROVE  SamePassword'
<1>0. Idle \in JobType
  BY IdleReady
<1>1. ASSUME NEW f \in Files, NEW form \in Forms, StartCreate(p, f, form) PROVE SamePassword'
  <2> DEFINE phase == IF form = "plain" THEN "refuse" ELSE "ask"
             k == [Idle EXCEPT !.cmd = "create", !.num = commands + 1, !.file = f, !.form = form,
                               !.phase = phase]
  <2>1. Set(p, k) /\ Overlap(p, form) /\ UNCHANGED disk
    BY <1>1 DEF StartCreate
  <2>2. form = "plain" \/ (form = "sealed" /\ phase = "ask")
    BY DEF Forms
  <2> HIDE DEF phase
  <2>3. k.cmd = "create" /\ k.form = form /\ k.phase = phase
    BY <1>0 DEF JobType
  <2> HIDE DEF k
  <2>4. CASE form = "plain"
    <3>1. ~Seals(k) /\ mixed \subseteq mixed'
      BY <2>1, <2>3, <2>4 DEF Seals, Overlap
    <3> QED
      BY <2>1, <3>1, PwSet DEF Sealed
  <2>5. CASE form = "sealed" /\ phase = "ask"
    <3>1. Agrees(k)
      BY <2>3, <2>5 DEF Agrees
    <3> QED
      BY <2>1, <2>5, <3>1, PwStart
  <2> QED
    BY <2>2, <2>4, <2>5
<1>2. CASE StartSeal(p)
  <2> DEFINE k == [Idle EXCEPT !.cmd = "seal", !.form = "sealed", !.phase = "ask",
                               !.todo = {f \in Discover : ~IsSealed(f)}, !.found = Discover]
  <2>1. Set(p, k) /\ Overlap(p, "sealed") /\ UNCHANGED disk
    BY <1>2 DEF StartSeal
  <2>2. k.cmd = "seal" /\ k.phase = "ask" /\ k.found = Discover
    BY <1>0 DEF JobType
  <2> HIDE DEF k
  <2>3. Agrees(k)
    BY <2>2, NoEnvelope DEF Agrees, Discover, Exists
  <2> QED
    BY <2>1, <2>3, PwStart
<1>3. ASSUME NEW cmd \in {"open", "print", "accounts"}, NEW fs, StartRead(p, cmd, fs)
      PROVE  SamePassword'
  <2> DEFINE k == [Idle EXCEPT !.cmd = cmd, !.phase = "read", !.todo = fs]
  <2>1. Set(p, k) /\ UNCHANGED <<disk, mixed>>
    BY <1>3 DEF StartRead
  <2>2. k.cmd = cmd
    BY <1>0 DEF JobType
  <2> HIDE DEF k
  <2>3. ~Seals(k)
    BY <2>2 DEF Seals
  <2> QED
    BY <2>1, <2>3, PwSet DEF Sealed
<1> QED
  BY <1>1, <1>2, <1>3

\* The password is typed: what is sealed by now is what discover has found.
LEMMA AskPw ==
    ASSUME TypeInv, SamePassword, NEW p \in Procs,
           NEW pw \in Passwords, NEW reference, Ask(p, pw, reference)
    PROVE  SamePassword'
<1> DEFINE found == IF job[p].cmd = "create" THEN Discover ELSE job[p].found
           j == [job[p] EXCEPT !.pw = pw, !.found = found]
           c == [j EXCEPT !.phase = "check"]
           next == IF j.cmd = "seal" THEN "look" ELSE "refuse"
           w == [j EXCEPT !.phase = next]
<1>1. /\ job[p] \in JobType /\ job[p].phase = "ask" /\ job[p].cmd \in {"create", "seal"}
      /\ UNCHANGED <<disk, mixed>>
      /\ Return(p) \/ (found = {} /\ Set(p, w)) \/ Set(p, c)
  BY DEF Ask, Writes, TypeInv, JobsReady, Ready
<1>2. mixed = {} /\ Seals(job[p]) => \A f \in Files : IsEnvelope(Sealed(f)) => f \in found
  BY <1>1, NoEnvelope DEF SamePassword, Agrees, Discover, Exists
<1> HIDE DEF found, next
<1>3. /\ c.cmd = job[p].cmd /\ c.form = job[p].form /\ c.pw = pw /\ c.found = found
      /\ c.phase = "check"
      /\ w.cmd = job[p].cmd /\ w.form = job[p].form /\ w.pw = pw /\ w.found = found
  BY <1>1 DEF JobType
<1>4. w.phase \in {"look", "refuse"}
  BY <1>1 DEF JobType, next
<1> HIDE DEF c, w
<1>5. CASE Return(p)
  BY <1>1, <1>5, PwReturn DEF Return, Sealed
<1>6. CASE Set(p, c)
  <2>1. Seals(c) => Seals(job[p])
    BY <1>3 DEF Seals
  <2>2. mixed = {} /\ Seals(c) => Agrees(c)
    BY <1>2, <1>3, <2>1 DEF Agrees
  <2> QED
    BY <1>1, <1>6, <2>1, <2>2, PwSet DEF Sealed
<1>7. CASE found = {} /\ Set(p, w)
  <2>1. Seals(w) => Seals(job[p])
    BY <1>3 DEF Seals
  <2>2. mixed = {} /\ Seals(w) => Agrees(w)
    BY <1>2, <1>7, <2>1 DEF Agrees
  <2> QED
    BY <1>1, <1>7, <2>1, <2>2, PwSet DEF Sealed
<1> QED
  BY <1>1, <1>5, <1>6, <1>7

\* A file that opens is checked; one that is in both forms makes mixed nonempty.
LEMMA CheckPw == ASSUME TypeInv, SamePassword, NEW p \in Procs, Check(p) PROVE SamePassword'
<1>1. PICK f \in Files :
        LET j == [job[p] EXCEPT !.found = @ \ {f}]
        IN  /\ job[p].phase = "check"
            /\ IF ~Passes(j, f) THEN Return(p)
               ELSE Set(p, IF j.found = {} THEN Writes(j) ELSE j)
            /\ mixed' = IF Plain(f) # NoFile /\ Sealed(f) # NoFile
                        THEN mixed \cup {"both forms"} ELSE mixed
            /\ UNCHANGED disk
  BY DEF Check
<1> DEFINE j == [job[p] EXCEPT !.found = job[p].found \ {f}]
           next == IF j.cmd = "seal" THEN "look" ELSE "refuse"
           w == [j EXCEPT !.phase = next]
<1>2. /\ job[p] \in JobType /\ job[p].phase = "check"
      /\ mixed \subseteq mixed' /\ UNCHANGED disk
      /\ Return(p) \/ (Passes(j, f) /\ Set(p, j)) \/ (Passes(j, f) /\ j.found = {} /\ Set(p, w))
  BY <1>1 DEF Writes, TypeInv, JobsReady
<1>3. mixed' = {} /\ Passes(j, f) /\ IsEnvelope(Sealed(f)) => Sealed(f).pw = j.pw
  BY <1>1, NoEnvelope DEF Passes, IsSealed, Opens
<1>4. /\ j.cmd = job[p].cmd /\ j.form = job[p].form /\ j.pw = job[p].pw /\ j.phase = "check"
      /\ j.found = job[p].found \ {f}
  BY <1>2 DEF JobType
<1>5. mixed' = {} /\ Passes(j, f) /\ Seals(job[p]) =>
        \A g \in Files : IsEnvelope(Sealed(g)) => g \in j.found \/ Sealed(g).pw = j.pw
  BY <1>2, <1>3, <1>4 DEF SamePassword, Agrees
<1>6. w.phase \in {"look", "refuse"} /\ w.cmd = j.cmd /\ w.form = j.form /\ w.pw = j.pw
  BY <1>2 DEF JobType
<1> HIDE DEF j, w
<1>7. CASE Return(p)
  BY <1>2, <1>7, PwReturn DEF Return, Sealed
<1>8. CASE Passes(j, f) /\ Set(p, j)
  <2>1. Seals(j) => Seals(job[p])
    BY <1>4 DEF Seals
  <2>2. mixed = {} /\ mixed' = {} /\ Seals(j) => Agrees(j)
    BY <1>4, <1>5, <1>8, <2>1 DEF Agrees
  <2> QED
    BY <1>2, <1>8, <2>1, <2>2, PwSet DEF Sealed
<1>9. CASE Passes(j, f) /\ j.found = {} /\ Set(p, w)
  <2>1. Seals(w) => Seals(job[p])
    BY <1>4, <1>6 DEF Seals
  <2>2. mixed = {} /\ mixed' = {} /\ Seals(w) => Agrees(w)
    BY <1>5, <1>6, <1>9, <2>1 DEF Agrees
  <2> QED
    BY <1>2, <1>9, <2>1, <2>2, PwSet DEF Sealed
<1> QED
  BY <1>2, <1>7, <1>8, <1>9

\* From here a command keeps its password and what is sealed opens with it.
LEMMA LaterPw ==
    ASSUME TypeInv, SamePassword, NEW p \in Procs, mixed' = mixed,
           \A f \in Files : IsEnvelope(Sealed(f)') => Sealed(f)' = Sealed(f),
           job[p].phase \in {"refuse", "look", "make", "fill", "verify", "remove"},
           NEW k, Set(p, k), k.cmd = job[p].cmd, k.form = job[p].form, k.pw = job[p].pw,
           k.phase \in {"look", "make", "fill", "verify", "remove"}
    PROVE  SamePassword'
<1>1. Seals(k) => Seals(job[p])
  BY DEF Seals
<1>2. mixed = {} /\ Seals(k) => Agrees(k)
  BY <1>1 DEF SamePassword, Agrees
<1> QED
  BY <1>1, <1>2, PwSet

LEMMA LookPw == ASSUME TypeInv, SamePassword, NEW p \in Procs, Look(p) PROVE SamePassword'
<1>1. PICK f \in Files :
        LET c == Plain(f)
            j == [job[p] EXCEPT !.todo = @ \ {f}, !.file = f]
        IN  \/ NextFile(p, j)
            \/ Return(p)
            \/ Set(p, [j EXCEPT !.phase = "make",
                         !.data = IF IsEnvelope(c) THEN c ELSE Encrypt(c, j.pw)])
  BY DEF Look
<1> DEFINE j == [job[p] EXCEPT !.todo = job[p].todo \ {f}, !.file = f]
           data == IF IsEnvelope(Plain(f)) THEN Plain(f) ELSE Encrypt(Plain(f), j.pw)
           k == [j EXCEPT !.phase = "make", !.data = data]
<1>2. NextFile(p, j) \/ Return(p) \/ Set(p, k)
  BY <1>1
<1>3. job[p] \in JobType /\ job[p].phase = "look" /\ UNCHANGED <<disk, mixed>>
  BY DEF Look, TypeInv, JobsReady
<1> HIDE DEF data
<1>4. /\ j \in JobType /\ j.cmd = job[p].cmd /\ j.form = job[p].form /\ j.pw = job[p].pw
      /\ k.cmd = job[p].cmd /\ k.form = job[p].form /\ k.pw = job[p].pw /\ k.phase = "make"
  BY <1>3 DEF JobType
<1> HIDE DEF j, k
<1>5. CASE NextFile(p, j)
  <2>1. mixed = {} /\ Seals(j) => \A g \in Files : IsEnvelope(Sealed(g)) => Sealed(g).pw = j.pw
    BY <1>3, <1>4 DEF SamePassword, Agrees, Seals
  <2> QED
    BY <1>3, <1>4, <1>5, <2>1, PwNext DEF Sealed
<1>6. CASE Return(p)
  BY <1>3, <1>6, PwReturn DEF Return, Sealed
<1>7. CASE Set(p, k)
  BY <1>3, <1>4, <1>7, LaterPw DEF Sealed
<1> QED
  BY <1>2, <1>5, <1>6, <1>7

\* A sealed file that is filled gets the password that all the others have.
LEMMA FillPw ==
    ASSUME TypeInv, SamePassword, NEW p \in Procs, Fill(p) \/ FillFails(p) \/ FillDamaged(p)
    PROVE  SamePassword'
<1>1. /\ job[p] \in JobType /\ job[p].phase = "fill" /\ Ready(job[p], commands) /\ mixed' = mixed
  BY DEF Fill, FillFails, FillDamaged, TypeInv, JobsReady
<1>2. PICK c \in {job[p].data, Fragment} : Put(p, c)
  BY DEF Fill, FillFails, FillDamaged
<1> DEFINE k == [job[p] EXCEPT !.phase = "verify"]
<1>3. Return(p) \/ (job[p].form # "plain" /\ Set(p, k))
  BY DEF Fill, FillFails, FillDamaged, Filled
<1>4. k.cmd = job[p].cmd /\ k.form = job[p].form /\ k.pw = job[p].pw /\ k.phase = "verify"
  BY <1>1 DEF JobType
<1> HIDE DEF k
<1>5. Path(p) \in Paths /\ Path(p) = <<job[p].file, job[p].form>>
  BY <1>1, JobPaths
<1>6. CASE \A f \in Files : IsEnvelope(Sealed(f)') => Sealed(f)' = Sealed(f)
  <2>1. CASE Return(p)
    BY <1>1, <1>6, <2>1, PwReturn DEF Return
  <2>2. CASE Set(p, k)
    BY <1>1, <1>4, <1>6, <2>2, LaterPw
  <2> QED
    BY <1>3, <2>1, <2>2
<1>7. CASE ~ \A f \in Files : IsEnvelope(Sealed(f)') => Sealed(f)' = Sealed(f)
  <2>1. PICK f \in Files : IsEnvelope(Sealed(f)') /\ Sealed(f)' # Sealed(f)
    BY <1>7
  <2>2. \A x \in Paths : disk'[x] # disk[x] => x = Path(p) /\ disk'[x] = c
    BY <1>2 DEF Put, TypeInv, FilesType
  <2>3. \A g \in Files : <<g, "sealed">> \in Paths
    BY DEF Paths, Forms
  <2>4. job[p].form = "sealed" /\ c = job[p].data
    BY <1>2, <1>5, <2>1, <2>2, <2>3, NoEnvelope DEF Sealed
  <2>5. Seals(job[p]) /\ job[p].data.pw = job[p].pw
    BY <1>1, <2>4 DEF Seals, Ready
  <2> SUFFICES ASSUME mixed = {}
               PROVE  Alone' /\ OnePassword' /\ \A q \in Procs : Seals(job'[q]) => Agrees(job[q])'
    BY <1>1 DEF SamePassword, Seals
  <2>6. \A g \in Files : IsEnvelope(Sealed(g)') => Sealed(g)'.pw = job[p].pw
    BY <1>1, <2>2, <2>3, <2>4, <2>5 DEF SamePassword, Agrees, Sealed
  <2>7. \A q \in Procs \ {p} : job'[q] = job[q] /\ ~Seals(job'[q])
    BY <1>3, <2>5 DEF SamePassword, Alone, Return, Set, TypeInv, JobsReady
  <2>8. Seals(job'[p]) => job'[p] = k
    BY <1>1, <1>3, DoneSeals DEF Return, Set, TypeInv, JobsReady
  <2>9. Alone'
    BY <2>7 DEF Alone, Seals
  <2>10. OnePassword'
    BY <2>6 DEF OnePassword, IsEnvelope
  <2>11. ASSUME NEW q \in Procs, Seals(job'[q]) PROVE Agrees(job[q])'
    <3>1. job'[q] = k
      BY <2>7, <2>8, <2>11
    <3> QED
      BY <1>4, <2>6, <3>1 DEF Agrees, IsEnvelope
  <2> QED
    BY <2>9, <2>10, <2>11
<1> QED
  BY <1>6, <1>7

\* What a command makes at first, and what it removes, is no envelope afterwards.
LEMMA WritePw ==
    ASSUME TypeInv, SamePassword, NEW p \in Procs,
           Make(p) \/ Verify(p) \/ Remove(p) \/ RemoveFails(p)
    PROVE  SamePassword'
<1>1. /\ job[p] \in JobType /\ job[p].phase \in {"make", "verify", "remove"} /\ mixed' = mixed
  BY DEF Make, Verify, Remove, RemoveFails, TypeInv, JobsReady
<1>2. \A x \in Paths : disk'[x] = disk[x] \/ disk'[x] \in {NoFile, Fragment}
  BY DEF Make, Verify, Remove, RemoveFails, TypeInv, FilesType
<1>3. \A f \in Files : IsEnvelope(Sealed(f)') => Sealed(f)' = Sealed(f)
  BY <1>2, NoEnvelope DEF Sealed, Paths, Forms
<1>4. ASSUME NEW phase \in {"fill", "remove"}, Set(p, [job[p] EXCEPT !.phase = phase])
      PROVE  SamePassword'
  <2> DEFINE k == [job[p] EXCEPT !.phase = phase]
  <2>1. k.cmd = job[p].cmd /\ k.form = job[p].form /\ k.pw = job[p].pw /\ k.phase = phase
    BY <1>1 DEF JobType
  <2>2. Set(p, k)
    BY <1>4
  <2> HIDE DEF k
  <2> QED
    BY <1>1, <1>3, <2>1, <2>2, LaterPw
<1>5. CASE Return(p)
  BY <1>1, <1>3, <1>5, PwReturn DEF Return
<1>6. CASE NextFile(p, job[p])
  <2>1. mixed = {} /\ Seals(job[p]) =>
          \A f \in Files : IsEnvelope(Sealed(f)) => Sealed(f).pw = job[p].pw
    BY <1>1 DEF SamePassword, Agrees
  <2> QED
    BY <1>1, <1>3, <1>6, <2>1, PwNext
<1> QED
  BY <1>4, <1>5, <1>6 DEF Make, Verify, Remove, RemoveFails

\* A command that reads seals nothing.
LEMMA ReadPw ==
    ASSUME TypeInv, SamePassword, NEW p \in Procs, NEW typed \in Passwords, ReadFile(p, typed)
    PROVE  SamePassword'
<1>1. PICK k \in JobType : Set(p, k) /\ k.cmd \notin {"create", "seal"}
  BY ReadFileJob
<1>2. UNCHANGED <<disk, mixed>> /\ ~Seals(k)
  BY <1>1 DEF ReadFile, Seals
<1> QED
  BY <1>1, <1>2, PwSet DEF Sealed

LEMMA RestPw ==
    ASSUME TypeInv, SamePassword, NEW p \in Procs, AskFails(p) \/ Refuse(p) \/ Crash(p)
    PROVE  SamePassword'
<1>1. job[p] \in JobType /\ UNCHANGED <<disk, mixed>>
  BY DEF AskFails, Refuse, Crash, TypeInv, JobsReady
<1>2. CASE Return(p)
  BY <1>1, <1>2, PwReturn DEF Return, Sealed
<1>3. CASE Refuse(p)
  <2> DEFINE key == [key |-> NumFiles + job[p].num, pw |-> Clear]
             data == IF job[p].form = "sealed" THEN Encrypt(key, job[p].pw) ELSE key
             k == [job[p] EXCEPT !.phase = "make", !.data = data]
  <2>1. Return(p) \/ Set(p, k)
    BY <1>3 DEF Refuse
  <2>2. job[p].phase = "refuse"
    BY <1>3 DEF Refuse
  <2> HIDE DEF data
  <2>3. k.cmd = job[p].cmd /\ k.form = job[p].form /\ k.pw = job[p].pw /\ k.phase = "make"
    BY <1>1 DEF JobType
  <2> HIDE DEF k
  <2> QED
    BY <1>1, <1>2, <2>1, <2>2, <2>3, LaterPw DEF Sealed
<1>4. CASE Crash(p)
  <2>1. Set(p, Idle) /\ ~Seals(Idle)
    BY <1>1, <1>4, DoneSeals DEF Crash
  <2> QED
    BY <1>1, <2>1, PwSet DEF Sealed
<1> QED
  BY <1>2, <1>3, <1>4 DEF AskFails

LEMMA StepPw == TypeInv /\ SamePassword /\ [Next]_vars => SamePassword'
<1> SUFFICES ASSUME TypeInv, SamePassword, [Next]_vars PROVE SamePassword'
  OBVIOUS
<1>1. ASSUME NEW p \in Procs, ProcStep(p) PROVE SamePassword'
  BY <1>1, StartPw, AskPw, CheckPw, LookPw, FillPw, WritePw, ReadPw, RestPw DEF ProcStep
<1>2. CASE UNCHANGED vars
  BY <1>2 DEF vars, SamePassword, Alone, OnePassword, Agrees, Sealed
<1> QED
  BY <1>1, <1>2 DEF Next

\* What is sealed at first is sealed under one password.
LEMMA InitPw == Init => SamePassword
<1> SUFFICES ASSUME Init PROVE SamePassword
  OBVIOUS
<1>1. PICK pw \in Passwords, start \in [Files -> {"absent", "clear", "envelope", "sealed"}] :
        disk = [x \in Paths |-> StartContent(x[1], x[2], start[x[1]], pw)]
  BY DEF Init
<1>2. ASSUME NEW f \in Files, IsEnvelope(Sealed(f)) PROVE Sealed(f).pw = pw
  <2>1. Sealed(f) = StartContent(f, "sealed", start[f], pw)
    BY <1>1 DEF Sealed, Paths, Forms
  <2> QED
    BY <1>2, <2>1, NoEnvelope DEF StartContent, Encrypt
<1>3. OnePassword
  BY <1>2 DEF OnePassword
<1>4. \A p \in Procs : ~Seals(job[p])
  BY DEF Init, Seals, Idle
<1> QED
  BY <1>3, <1>4 DEF SamePassword, Alone

\* seal and create check what is sealed already (check_opens) before they write:
\* all of it opens with one password, as long as no two of them overlapped and
\* none of them met a file in both forms.
THEOREM OnePasswordHolds == Spec => []OnePassword
<1>1. SamePassword => OnePassword
  BY DEF SamePassword, OnePassword
<1> QED
  BY <1>1, VaultInvariance, InitPw, StepPw, PTL DEF Spec

-----------------------------------------------------------------------------
(***************************************************************************)
(* Where the keys are                                                      *)
(***************************************************************************)

Holding == {"make", "fill", "verify", "remove"}
Young == {"ask", "check", "refuse", "make", "fill"}

\* The key that a create generates.
KeyOf(j) == NumFiles + j.num

\* A key is in a file, or a command that is at that file holds it.
Holds(k, f) ==
    \/ \E form \in Forms : disk[<<f, form>>].key = k
    \/ \E p \in Procs : job[p].phase \in Holding /\ job[p].file = f /\ job[p].data.key = k

OneFile == \A k \in Keys, f, g \in Files : Holds(k, f) /\ Holds(k, g) => f = g

\* No key is there before its command is started, and no two commands generate
\* the same one.
Generated == \A k \in Keys, f \in Files : Holds(k, f) => k <= NumFiles + commands

OwnNumber ==
    \A p, q \in Procs :
        job[p].cmd = "create" /\ job[q].cmd = "create" /\ job[p].num = job[q].num => p = q

\* Until create has written its key, it is on no path and in no other command.
Unwritten(p) ==
    job[p].cmd = "create" /\ job[p].phase \in Young =>
        /\ \A f \in Files, form \in Forms : disk[<<f, form>>].key # KeyOf(job[p])
        /\ \A q \in Procs \ {p} : job[q].phase \in Holding => job[q].data.key # KeyOf(job[p])

\* What a seal read was in the clear or under its password, and still is.
ReadUnder(p) ==
    LET j == job[p]
    IN  j.cmd = "seal" /\ j.phase \in Holding /\ Plain(j.file).key = j.data.key =>
          Plain(j.file).pw \in {Clear, j.data.pw}

PlaceInv ==
    /\ OneFile /\ Generated /\ OwnNumber
    /\ \A p \in Procs : Unwritten(p) /\ ReadUnder(p)

\* A step that brings no key to a file where it was not.
LEMMA PlaceStep ==
    ASSUME TypeInv, PlaceInv, NEW p \in Procs, NEW k, Set(p, k),
           commands' \in 0 .. MaxCommands, commands <= commands',
           \A f \in Files, form \in Forms : disk'[<<f, form>>].key \in Keys =>
               \/ disk'[<<f, form>>] = disk[<<f, form>>]
               \/ (/\ job[p].phase \in Holding /\ f = job[p].file /\ k.phase \notin Young
                   /\ disk'[<<f, form>>].key = job[p].data.key),
           k.phase \in Holding =>
               \/ (/\ job[p].phase \in Holding /\ k.file = job[p].file /\ k.data = job[p].data
                   /\ k.cmd = "seal" => job[p].cmd = "seal")
               \/ (/\ k.cmd = "seal" /\ k.file \in Files /\ k.data.key = Plain(k.file).key
                   /\ disk'[<<k.file, "plain">>].pw \in {Clear, k.data.pw}),
           k.cmd = "create" =>
               /\ job[p].cmd = "create" /\ k.num = job[p].num
               /\ k.phase \in Young => job[p].phase \in Young,
           \A f \in Files : Plain(f)' = Plain(f) \/ Plain(f)'.pw = Clear
    PROVE  PlaceInv'
<1>1. job'[p] = k /\ \A q \in Procs \ {p} : job'[q] = job[q]
  BY DEF Set, TypeInv, JobsReady
<1>2. \A f \in Files : Plain(f) = disk[<<f, "plain">>] /\ "plain" \in Forms
  BY DEF Plain, Forms
<1>3. ASSUME NEW key \in Keys, NEW f \in Files, Holds(key, f)' PROVE Holds(key, f)
  <2>1. CASE \E form \in Forms : disk'[<<f, form>>].key = key
    BY <2>1 DEF Holds
  <2>2. CASE \E q \in Procs : job'[q].phase \in Holding /\ job'[q].file = f /\ job'[q].data.key = key
    <3>1. PICK q \in Procs : job'[q].phase \in Holding /\ job'[q].file = f /\ job'[q].data.key = key
      BY <2>2
    <3>2. CASE q # p
      BY <1>1, <3>1, <3>2 DEF Holds
    <3>3. CASE q = p
      BY <1>1, <1>2, <3>1, <3>3 DEF Holds
    <3> QED
      BY <3>2, <3>3
  <2> QED
    BY <1>3, <2>1, <2>2 DEF Holds
<1>4. OneFile'
  BY <1>3 DEF PlaceInv, OneFile
<1>5. Generated'
  <2> SUFFICES ASSUME NEW key \in Keys, NEW f \in Files, Holds(key, f)'
               PROVE  key <= NumFiles + commands'
    BY DEF Generated
  <2>1. key <= NumFiles + commands
    BY <1>3 DEF PlaceInv, Generated
  <2>2. key \in Int /\ commands \in Int /\ commands' \in Int /\ NumFiles \in Int
    BY Bounds DEF Keys, TypeInv, CountsType
  <2> QED
    BY <2>1, <2>2
<1>6. OwnNumber'
  BY <1>1 DEF PlaceInv, OwnNumber
<1>7. ASSUME NEW q \in Procs PROVE Unwritten(q)'
  <2> SUFFICES ASSUME job'[q].cmd = "create", job'[q].phase \in Young
               PROVE  /\ \A f \in Files, form \in Forms : disk'[<<f, form>>].key # KeyOf(job'[q])
                      /\ \A r \in Procs \ {q} : job'[r].phase \in Holding =>
                           job'[r].data.key # KeyOf(job'[q])
    BY DEF Unwritten, KeyOf
  <2>1. /\ job[q].cmd = "create" /\ job[q].phase \in Young /\ KeyOf(job'[q]) = KeyOf(job[q])
    BY <1>1 DEF KeyOf
  <2>2. /\ \A f \in Files, form \in Forms : disk[<<f, form>>].key # KeyOf(job[q])
        /\ \A r \in Procs \ {q} : job[r].phase \in Holding => job[r].data.key # KeyOf(job[q])
    BY <2>1 DEF PlaceInv, Unwritten
  <2>3. KeyOf(job[q]) \in Keys
    <3>1. job[q].num \in 1 .. commands /\ commands \in 0 .. MaxCommands
      BY <2>1 DEF TypeInv, JobsReady, Ready, CountsType
    <3> QED
      BY <3>1, KeyBound, Zenon DEF KeyOf
  <2>4. \A f \in Files, form \in Forms : disk'[<<f, form>>].key # KeyOf(job[q])
    BY <1>1, <2>2, <2>3
  <2>5. ASSUME NEW r \in Procs \ {q}, job'[r].phase \in Holding PROVE job'[r].data.key # KeyOf(job[q])
    <3>1. CASE r # p
      BY <1>1, <2>2, <2>5, <3>1
    <3>2. CASE r = p
      BY <1>1, <1>2, <2>2, <2>5, <3>2
    <3> QED
      BY <3>1, <3>2
  <2> QED
    BY <2>1, <2>4, <2>5
<1>8. ASSUME NEW q \in Procs PROVE ReadUnder(q)'
  <2> SUFFICES ASSUME job'[q].cmd = "seal", job'[q].phase \in Holding,
                      disk'[<<job'[q].file, "plain">>].key = job'[q].data.key
               PROVE  disk'[<<job'[q].file, "plain">>].pw \in {Clear, job'[q].data.pw}
    BY DEF ReadUnder, Plain
  <2>1. CASE /\ job[q].cmd = "seal" /\ job[q].phase \in Holding
             /\ job'[q].file = job[q].file /\ job'[q].data = job[q].data
    <3>1. job[q].file \in Files
      BY <2>1, JobPaths DEF Holding
    <3> DEFINE x == <<job[q].file, "plain">>
    <3>2. disk[x].key = job[q].data.key => disk[x].pw \in {Clear, job[q].data.pw}
      BY <2>1 DEF PlaceInv, ReadUnder, Plain
    <3>3. disk'[x] = disk[x] \/ disk'[x].pw = Clear
      BY <3>1 DEF Plain
    <3> QED
      BY <2>1, <3>2, <3>3
  <2>2. CASE q = p /\ disk'[<<k.file, "plain">>].pw \in {Clear, k.data.pw}
    BY <1>1, <2>2
  <2> QED
    BY <1>1, <2>1, <2>2
<1> QED
  BY <1>4, <1>5, <1>6, <1>7, <1>8 DEF PlaceInv

\* A key that is not among the keys: nothing is there, or it is damaged.
LEMMA PlaceDisk ==
    ASSUME TypeInv, \A x \in Paths : disk'[x] = disk[x] \/ disk'[x] \in {NoFile, Fragment}
    PROVE  /\ \A f \in Files, form \in Forms :
                disk'[<<f, form>>].key \in Keys => disk'[<<f, form>>] = disk[<<f, form>>]
           /\ \A f \in Files : Plain(f)' = Plain(f) \/ Plain(f)'.pw = Clear
<1>1. NoFile.key \notin Keys /\ Fragment.key \notin Keys /\ NoFile.pw = Clear /\ Fragment.pw = Clear
  BY NoKey DEF NoFile, Fragment
<1>2. \A f \in Files, form \in Forms : <<f, form>> \in Paths /\ "plain" \in Forms
  BY DEF Paths, Forms
<1>3. ASSUME NEW x \in Paths PROVE disk'[x] = disk[x] \/ (disk'[x].key \notin Keys /\ disk'[x].pw = Clear)
  BY <1>1
<1>4. \A f \in Files, form \in Forms :
        disk'[<<f, form>>].key \in Keys => disk'[<<f, form>>] = disk[<<f, form>>]
  BY <1>2, <1>3
<1>5. ASSUME NEW f \in Files PROVE Plain(f)' = Plain(f) \/ Plain(f)'.pw = Clear
  <2> DEFINE x == <<f, "plain">>
  <2>1. x \in Paths
    BY DEF Paths, Forms
  <2>2. disk'[x] = disk[x] \/ disk'[x].pw = Clear
    BY <1>3, <2>1
  <2>3. Plain(f) = disk[x] /\ Plain(f)' = disk'[x]
    BY DEF Plain
  <2> QED
    BY <2>2, <2>3
<1> QED
  BY <1>4, <1>5

\* A command that returns or is killed, or comes to a phase in which it holds none.
LEMMA PlaceQuiet ==
    ASSUME TypeInv, PlaceInv, NEW p \in Procs, NEW k, Set(p, k),
           commands' \in 0 .. MaxCommands, commands <= commands',
           \A x \in Paths : disk'[x] = disk[x] \/ disk'[x] \in {NoFile, Fragment},
           k.phase \notin Holding,
           k.cmd = "create" => /\ job[p].cmd = "create" /\ k.num = job[p].num
                               /\ job[p].phase \in Young
    PROVE  PlaceInv'
BY PlaceDisk, PlaceStep

\* commands is not counted on.
LEMMA SameCommands ==
    ASSUME TypeInv, commands' = commands PROVE commands' \in 0 .. MaxCommands /\ commands <= commands'
<1>1. commands \in 0 .. MaxCommands
  BY DEF TypeInv, CountsType
<1>2. commands <= commands
  BY <1>1, SameCount, Zenon
<1> QED
  BY <1>1, <1>2

LEMMA PlaceReturn ==
    ASSUME TypeInv, PlaceInv, NEW p \in Procs, NEW j \in JobType, Set(p, Done(j)),
           commands' = commands,
           \A x \in Paths : disk'[x] = disk[x] \/ disk'[x] \in {NoFile, Fragment}
    PROVE  PlaceInv'
<1>1. Done(j).phase = "done" /\ Done(j).cmd = "none"
  BY DoneReady
<1> QED
  BY <1>1, SameCommands, PlaceQuiet DEF Holding

LEMMA PlaceNext ==
    ASSUME TypeInv, PlaceInv, NEW p \in Procs, NEW j \in JobType, NextFile(p, j), j.cmd # "create",
           commands' = commands,
           \A x \in Paths : disk'[x] = disk[x] \/ disk'[x] \in {NoFile, Fragment}
    PROVE  PlaceInv'
<1>1. CASE j.todo = {}
  BY <1>1, PlaceReturn DEF NextFile
<1>2. CASE j.todo # {}
  <2> DEFINE phase == IF j.cmd = "seal" THEN "look" ELSE "read"
             k == [j EXCEPT !.phase = phase]
  <2>1. Set(p, k)
    BY <1>2 DEF NextFile
  <2>2. phase \in {"look", "read"}
    OBVIOUS
  <2> HIDE DEF phase
  <2>3. k.cmd = j.cmd /\ k.phase = phase
    BY DEF JobType
  <2> HIDE DEF k
  <2>4. k.phase \notin Holding
    BY <2>2, <2>3 DEF Holding
  <2> QED
    BY <2>1, <2>3, <2>4, SameCommands, PlaceQuiet
<1> QED
  BY <1>1, <1>2

\* A create that starts takes a number, and so a key, that was never taken.
LEMMA StartPlace ==
    ASSUME TypeInv, PlaceInv, NEW p \in Procs,
           \/ \E f \in Files, form \in Forms : StartCreate(p, f, form)
           \/ StartSeal(p)
           \/ \E cmd \in {"open", "print", "accounts"}, fs \in SUBSET Files : StartRead(p, cmd, fs)
    PROVE  PlaceInv'
<1>0. Idle \in JobType /\ commands \in Nat /\ commands \in 0 .. MaxCommands
  BY IdleReady, Bounds DEF TypeInv, CountsType
<1>b. Begin(p) /\ UNCHANGED disk
  BY DEF StartCreate, StartSeal, StartRead
<1>1. /\ commands' = commands + 1 /\ commands' \in 0 .. MaxCommands /\ commands <= commands'
      /\ UNCHANGED disk
  BY <1>0, <1>b, Bounds DEF Begin
<1>2. ASSUME NEW k, Set(p, k), k.phase \notin Holding, k.cmd # "create" PROVE PlaceInv'
  BY <1>1, <1>2, PlaceQuiet
<1>3. ASSUME NEW f \in Files, NEW form \in Forms, StartCreate(p, f, form) PROVE PlaceInv'
  <2> DEFINE phase == IF form = "plain" THEN "refuse" ELSE "ask"
             k == [Idle EXCEPT !.cmd = "create", !.num = commands + 1, !.file = f, !.form = form,
                               !.phase = phase]
  <2>1. Set(p, k)
    BY <1>3 DEF StartCreate
  <2>2. phase \in {"refuse", "ask"}
    OBVIOUS
  <2> HIDE DEF phase
  <2>3. k.cmd = "create" /\ k.num = commands + 1 /\ k.phase = phase
    BY <1>0 DEF JobType
  <2> HIDE DEF k
  <2>4. k.phase \notin Holding
    BY <2>2, <2>3 DEF Holding
  <2>5. job'[p] = k /\ \A q \in Procs \ {p} : job'[q] = job[q]
    BY <2>1 DEF Set, TypeInv, JobsReady
  <2>6. ASSUME NEW key, NEW g, Holds(key, g)' PROVE Holds(key, g)
    BY <1>1, <2>4, <2>5, <2>6 DEF Holds
  <2>7. OneFile'
    BY <2>6 DEF PlaceInv, OneFile
  <2>8. Generated'
    <3> SUFFICES ASSUME NEW key \in Keys, NEW g \in Files, Holds(key, g)'
                 PROVE  key <= NumFiles + commands'
      BY DEF Generated
    <3>1. key <= NumFiles + commands
      BY <2>6 DEF PlaceInv, Generated
    <3>2. key \in Int /\ commands \in Int /\ NumFiles \in Int
      BY Bounds, <1>0 DEF Keys
    <3> QED
      BY <1>1, <3>1, <3>2
  <2>9. \A q \in Procs \ {p} : job[q].cmd = "create" => job[q].num \in Nat /\ job[q].num < commands + 1
    BY <1>0 DEF TypeInv, JobsReady, Ready
  <2>10. OwnNumber'
    BY <1>0, <2>3, <2>5, <2>9 DEF PlaceInv, OwnNumber
  <2>11. ASSUME NEW key, NEW g \in Files, Holds(key, g) PROVE key # NumFiles + (commands + 1)
    <3> SUFFICES ASSUME key = NumFiles + (commands + 1) PROVE FALSE
      OBVIOUS
    <3>1. key \in Keys
      BY <1>0, <1>1, Bounds DEF Keys
    <3>2. key <= NumFiles + commands
      BY <2>11, <3>1 DEF PlaceInv, Generated
    <3> QED
      BY <1>0, <3>2, Bounds
  <2>12. ASSUME NEW q \in Procs PROVE Unwritten(q)'
    <3>1. CASE q = p
      <4>1. KeyOf(job'[q]) = NumFiles + (commands + 1)
        BY <2>3, <2>5, <3>1 DEF KeyOf
      <4>2. \A g \in Files, fm \in Forms : disk[<<g, fm>>].key # NumFiles + (commands + 1)
        BY <2>11 DEF Holds
      <4>3. ASSUME NEW r \in Procs \ {p}, job[r].phase \in Holding
            PROVE  job[r].data.key # NumFiles + (commands + 1)
        <5>1. job[r].file \in Files
          BY <4>3, JobPaths DEF Holding
        <5> QED
          BY <2>11, <4>3, <5>1 DEF Holds
      <4> QED
        BY <1>1, <2>5, <3>1, <4>1, <4>2, <4>3 DEF Unwritten, KeyOf
    <3>2. CASE q # p
      <4>1. Unwritten(q)
        BY DEF PlaceInv
      <4>2. job'[q] = job[q] /\ KeyOf(job'[q]) = KeyOf(job[q])
        BY <2>5, <3>2
      <4> QED
        BY <1>1, <2>4, <2>5, <4>1, <4>2 DEF Unwritten, KeyOf
    <3> QED
      BY <3>1, <3>2
  <2>13. \A q \in Procs : ReadUnder(q)'
    BY <1>1, <2>4, <2>5 DEF PlaceInv, ReadUnder, Plain
  <2> QED
    BY <2>7, <2>8, <2>10, <2>12, <2>13 DEF PlaceInv
<1>4. CASE StartSeal(p)
  <2> DEFINE k == [Idle EXCEPT !.cmd = "seal", !.form = "sealed", !.phase = "ask",
                               !.todo = {f \in Discover : ~IsSealed(f)}, !.found = Discover]
  <2>1. Set(p, k) /\ k.cmd = "seal" /\ k.phase = "ask"
    BY <1>0, <1>4 DEF StartSeal, JobType
  <2> HIDE DEF k
  <2> QED
    BY <1>2, <2>1 DEF Holding
<1>5. ASSUME NEW cmd \in {"open", "print", "accounts"}, NEW fs, StartRead(p, cmd, fs) PROVE PlaceInv'
  <2> DEFINE k == [Idle EXCEPT !.cmd = cmd, !.phase = "read", !.todo = fs]
  <2>1. Set(p, k) /\ k.cmd = cmd /\ k.phase = "read"
    BY <1>0, <1>5 DEF StartRead, JobType
  <2> HIDE DEF k
  <2> QED
    BY <1>2, <2>1 DEF Holding
<1> QED
  BY <1>3, <1>4, <1>5

\* Until its key is found a command holds none.
LEMMA EarlyPlace ==
    ASSUME TypeInv, PlaceInv, NEW p \in Procs,
           \/ \E pw \in Passwords, reference \in {{}} \cup {{f} : f \in Files} : Ask(p, pw, reference)
           \/ AskFails(p) \/ Check(p)
    PROVE  PlaceInv'
<1>1. /\ job[p] \in JobType /\ UNCHANGED <<disk, commands>> /\ job[p].phase \in {"ask", "check"}
      /\ job[p].phase \in Young
  BY DEF Ask, AskFails, Check, TypeInv, JobsReady, Young
<1>2. CASE Return(p)
  BY <1>1, <1>2, PlaceReturn DEF Return
<1>3. ASSUME NEW k, Set(p, k), k.cmd = job[p].cmd, k.num = job[p].num,
             k.phase \in {"check", "look", "refuse"}
      PROVE  PlaceInv'
  BY <1>1, <1>3, SameCommands, PlaceQuiet DEF Holding
<1>4. ASSUME NEW pw, NEW reference, Ask(p, pw, reference) PROVE PlaceInv'
  <2> DEFINE found == IF job[p].cmd = "create" THEN Discover ELSE job[p].found
             j == [job[p] EXCEPT !.pw = pw, !.found = found]
             next == IF j.cmd = "seal" THEN "look" ELSE "refuse"
             w == [j EXCEPT !.phase = next]
             c == [j EXCEPT !.phase = "check"]
  <2>1. Return(p) \/ Set(p, w) \/ Set(p, c)
    BY <1>4 DEF Ask, Writes
  <2>2. next \in {"look", "refuse"}
    OBVIOUS
  <2> HIDE DEF found, next
  <2>3. /\ w.cmd = job[p].cmd /\ w.num = job[p].num /\ w.phase = next
        /\ c.cmd = job[p].cmd /\ c.num = job[p].num /\ c.phase = "check"
    BY <1>1 DEF JobType
  <2> HIDE DEF w, c
  <2> QED
    BY <1>2, <1>3, <2>1, <2>2, <2>3
<1>5. CASE Check(p)
  <2>1. PICK f \in Files :
          LET j == [job[p] EXCEPT !.found = @ \ {f}]
          IN  Return(p) \/ Set(p, Writes(j)) \/ (Set(p, j) /\ job[p].phase = "check")
    BY <1>5 DEF Check
  <2> DEFINE j == [job[p] EXCEPT !.found = job[p].found \ {f}]
             next == IF j.cmd = "seal" THEN "look" ELSE "refuse"
             w == [j EXCEPT !.phase = next]
  <2>2. Return(p) \/ Set(p, w) \/ (Set(p, j) /\ job[p].phase = "check")
    BY <2>1 DEF Writes
  <2>3. next \in {"look", "refuse"}
    OBVIOUS
  <2> HIDE DEF next
  <2>4. /\ w.cmd = job[p].cmd /\ w.num = job[p].num /\ w.phase = next
        /\ j.cmd = job[p].cmd /\ j.num = job[p].num /\ j.phase = job[p].phase
    BY <1>1 DEF JobType
  <2> HIDE DEF w, j
  <2> QED
    BY <1>2, <1>3, <2>2, <2>3, <2>4
<1> QED
  BY <1>2, <1>4, <1>5 DEF AskFails

\* The key that is found is the command's own.
LEMMA RefusePlace == ASSUME TypeInv, PlaceInv, NEW p \in Procs, Refuse(p) PROVE PlaceInv'
<1> DEFINE key == [key |-> NumFiles + job[p].num, pw |-> Clear]
           data == IF job[p].form = "sealed" THEN Encrypt(key, job[p].pw) ELSE key
           k == [job[p] EXCEPT !.phase = "make", !.data = data]
<1>1. /\ job[p] \in JobType /\ Ready(job[p], commands) /\ UNCHANGED <<disk, commands>>
      /\ job[p].phase = "refuse" /\ job[p].phase \in Young /\ job[p].phase \notin Holding
      /\ job[p].cmd = "create" /\ job[p].file \in Files
      /\ Return(p) \/ Set(p, k)
  BY DEF Refuse, TypeInv, JobsReady, Ready, Young, Holding
<1>2. data.key = KeyOf(job[p])
  BY DEF Encrypt, KeyOf
<1> HIDE DEF data
<1>3. /\ k.cmd = "create" /\ k.num = job[p].num /\ k.file = job[p].file /\ k.data = data
      /\ k.phase = "make"
  BY <1>1 DEF JobType
<1> HIDE DEF k
<1>4. CASE Return(p)
  BY <1>1, <1>4, PlaceReturn DEF Return
<1>5. CASE Set(p, k)
  <2>1. job'[p] = k /\ \A q \in Procs \ {p} : job'[q] = job[q]
    BY <1>5 DEF Set, TypeInv, JobsReady
  <2>2. /\ \A f \in Files, form \in Forms : disk[<<f, form>>].key # KeyOf(job[p])
        /\ \A q \in Procs \ {p} : job[q].phase \in Holding => job[q].data.key # KeyOf(job[p])
    BY <1>1 DEF PlaceInv, Unwritten
  <2>3. ASSUME NEW c \in Keys, NEW f \in Files, Holds(c, f)'
        PROVE  Holds(c, f) \/ (c = KeyOf(job[p]) /\ f = job[p].file)
    <3>1. CASE \E form \in Forms : disk'[<<f, form>>].key = c
      BY <1>1, <3>1 DEF Holds
    <3>2. CASE \E q \in Procs : job'[q].phase \in Holding /\ job'[q].file = f /\ job'[q].data.key = c
      BY <1>2, <1>3, <2>1, <3>2 DEF Holds
    <3> QED
      BY <2>3, <3>1, <3>2 DEF Holds
  <2>4. \A f \in Files : ~Holds(KeyOf(job[p]), f)
    BY <1>1, <2>2 DEF Holds
  <2>5. OneFile'
    BY <2>3, <2>4 DEF PlaceInv, OneFile
  <2>6. Generated'
    <3> SUFFICES ASSUME NEW c \in Keys, NEW f \in Files, Holds(c, f)' PROVE c <= NumFiles + commands'
      BY DEF Generated
    <3>1. CASE Holds(c, f)
      BY <1>1, <3>1 DEF PlaceInv, Generated
    <3>2. CASE c = KeyOf(job[p])
      <4>1. job[p].num \in 1 .. commands /\ commands \in Nat
        BY <1>1, Bounds DEF Ready, TypeInv, CountsType
      <4> QED
        BY <1>1, <3>2, <4>1, Bounds DEF KeyOf
    <3> QED
      BY <2>3, <3>1, <3>2
  <2>7. OwnNumber'
    BY <1>1, <1>3, <2>1 DEF PlaceInv, OwnNumber
  <2>8. ASSUME NEW q \in Procs, job'[q].cmd = "create", job'[q].phase \in Young PROVE Unwritten(q)'
    <3>1. CASE q = p
      <4>1. KeyOf(job'[q]) = KeyOf(job[p])
        BY <1>3, <2>1, <3>1 DEF KeyOf
      <4> QED
        BY <1>1, <2>1, <2>2, <3>1, <4>1 DEF Unwritten, KeyOf
    <3>2. CASE q # p
      <4>1. job'[q] = job[q] /\ job[q].cmd = "create" /\ job[q].phase \in Young /\ Unwritten(q)
        BY <2>1, <2>8, <3>2 DEF PlaceInv
      <4>2. job[q].num # job[p].num
        BY <1>1, <3>2, <4>1 DEF PlaceInv, OwnNumber
      <4>3. KeyOf(job[q]) # KeyOf(job[p])
        <5>1. job[q].num \in Nat /\ job[p].num \in Nat
          BY <1>1, <4>1, Bounds DEF TypeInv, JobsReady, Ready, CountsType
        <5> QED
          BY <4>2, <5>1, Bounds DEF KeyOf
      <4>4. \A r \in Procs \ {q} : job'[r].phase \in Holding => job'[r].data.key # KeyOf(job[q])
        BY <1>2, <1>3, <2>1, <4>1, <4>3 DEF Unwritten
      <4> QED
        BY <1>1, <4>1, <4>4 DEF Unwritten, KeyOf
    <3> QED
      BY <3>1, <3>2
  <2>9. \A q \in Procs : Unwritten(q)'
    BY <2>8 DEF Unwritten
  <2>10. \A q \in Procs : ReadUnder(q)'
    BY <1>1, <1>3, <2>1 DEF PlaceInv, ReadUnder, Plain
  <2> QED
    BY <2>5, <2>6, <2>7, <2>9, <2>10 DEF PlaceInv
<1> QED
  BY <1>1, <1>4, <1>5

\* A seal holds what it has read, at the file where it has read it.
LEMMA LookPlace == ASSUME TypeInv, PlaceInv, NEW p \in Procs, Look(p) PROVE PlaceInv'
<1>1. PICK f \in Files :
        LET c == Plain(f)
            j == [job[p] EXCEPT !.todo = @ \ {f}, !.file = f]
        IN  \/ NextFile(p, j)
            \/ Return(p)
            \/ Set(p, [j EXCEPT !.phase = "make",
                         !.data = IF IsEnvelope(c) THEN c ELSE Encrypt(c, j.pw)])
  BY DEF Look
<1> DEFINE j == [job[p] EXCEPT !.todo = job[p].todo \ {f}, !.file = f]
           data == IF IsEnvelope(Plain(f)) THEN Plain(f) ELSE Encrypt(Plain(f), j.pw)
           k == [j EXCEPT !.phase = "make", !.data = data]
<1>2. NextFile(p, j) \/ Return(p) \/ Set(p, k)
  BY <1>1
<1>3. /\ job[p] \in JobType /\ job[p].cmd = "seal" /\ UNCHANGED <<disk, commands>>
  BY DEF Look, TypeInv, JobsReady, Ready
<1>4. data.key = Plain(f).key /\ Plain(f).pw \in {Clear, data.pw}
  BY DEF IsEnvelope, Encrypt
<1> HIDE DEF data
<1>5. /\ j \in JobType /\ j.cmd = "seal"
      /\ k.cmd = "seal" /\ k.phase = "make" /\ k.file = f /\ k.data = data
  BY <1>3 DEF JobType
<1> HIDE DEF j, k
<1>6. CASE NextFile(p, j)
  BY <1>3, <1>5, <1>6, PlaceNext
<1>7. CASE Return(p)
  BY <1>3, <1>7, PlaceReturn DEF Return
<1>8. CASE Set(p, k)
  <2>1. disk'[<<k.file, "plain">>].pw \in {Clear, k.data.pw} /\ k.data.key = Plain(k.file).key
    BY <1>3, <1>4, <1>5 DEF Plain
  <2>2. \A g \in Files : Plain(g)' = Plain(g)
    BY <1>3 DEF Plain
  <2> QED
    BY <1>3, <1>5, <1>8, <2>1, <2>2, SameCommands, PlaceStep
<1> QED
  BY <1>2, <1>6, <1>7, <1>8

\* What is written is what the command holds, at its file.
LEMMA FillPlace ==
    ASSUME TypeInv, PlaceInv, NEW p \in Procs, Fill(p) \/ FillFails(p) \/ FillDamaged(p)
    PROVE  PlaceInv'
<1>1. /\ job[p] \in JobType /\ job[p].phase = "fill" /\ job[p].phase \in Holding
      /\ Ready(job[p], commands) /\ commands' = commands
  BY DEF Fill, FillFails, FillDamaged, TypeInv, JobsReady, Holding
<1>2. PICK c \in {job[p].data, Fragment} : Put(p, c)
  BY DEF Fill, FillFails, FillDamaged
<1> DEFINE v == [job[p] EXCEPT !.phase = "verify"]
<1>3. Set(p, Done(job[p])) \/ Set(p, v)
  BY DEF Fill, FillFails, FillDamaged, Filled, Return
<1>4. PICK k : /\ Set(p, k) /\ k.phase \notin Young
               /\ k.cmd = "none" \/ (k.cmd = job[p].cmd /\ k.num = job[p].num)
               /\ k.phase \in Holding => k.file = job[p].file /\ k.data = job[p].data
  <2>1. CASE Set(p, Done(job[p]))
    <3>1. Done(job[p]).cmd = "none" /\ Done(job[p]).phase = "done"
      BY <1>1, DoneReady
    <3> QED
      BY <2>1, <3>1 DEF Young, Holding
  <2>2. CASE Set(p, v)
    <3>1. /\ v.cmd = job[p].cmd /\ v.num = job[p].num /\ v.file = job[p].file
          /\ v.data = job[p].data /\ v.phase = "verify"
      BY <1>1 DEF JobType
    <3> HIDE DEF v
    <3> QED
      BY <2>2, <3>1 DEF Young, Holding
  <2> QED
    BY <1>3, <2>1, <2>2
<1>5. /\ Path(p) \in Paths /\ Path(p) = <<job[p].file, job[p].form>>
      /\ job[p].form = "plain" \/ job[p].form = "sealed"
  BY <1>1, JobPaths DEF Forms
<1>6. \A x \in Paths : disk'[x] = disk[x] \/ (x = Path(p) /\ disk'[x] = c)
  BY <1>2 DEF Put, TypeInv, FilesType
<1>7. c = job[p].data \/ (c.key \notin Keys /\ c.pw = Clear)
  BY <1>2, NoKey DEF Fragment
<1>8. ASSUME NEW f \in Files, NEW form \in Forms, disk'[<<f, form>>].key \in Keys,
             disk'[<<f, form>>] # disk[<<f, form>>]
      PROVE  f = job[p].file /\ disk'[<<f, form>>].key = job[p].data.key
  <2>1. <<f, form>> \in Paths
    BY DEF Paths
  <2> QED
    BY <1>5, <1>6, <1>7, <1>8, <2>1
<1>9. ASSUME NEW f \in Files PROVE Plain(f)' = Plain(f) \/ Plain(f)'.pw = Clear
  <2> DEFINE x == <<f, "plain">>
  <2>1. x \in Paths
    BY DEF Paths, Forms
  <2>2. job[p].form = "plain" => job[p].data.pw = Clear
    BY <1>1 DEF Ready
  <2>3. disk'[x] = disk[x] \/ disk'[x].pw = Clear
    BY <1>5, <1>6, <1>7, <2>1, <2>2
  <2>4. Plain(f) = disk[x] /\ Plain(f)' = disk'[x]
    BY DEF Plain
  <2> QED
    BY <2>3, <2>4
<1>10. /\ commands' \in 0 .. MaxCommands /\ commands <= commands'
       /\ k.phase \in Holding =>
            \/ (/\ job[p].phase \in Holding /\ k.file = job[p].file /\ k.data = job[p].data
                /\ k.cmd = "seal" => job[p].cmd = "seal")
            \/ (/\ k.cmd = "seal" /\ k.file \in Files /\ k.data.key = Plain(k.file).key
                /\ disk'[<<k.file, "plain">>].pw \in {Clear, k.data.pw})
       /\ k.cmd = "create" =>
            /\ job[p].cmd = "create" /\ k.num = job[p].num
            /\ k.phase \in Young => job[p].phase \in Young
       /\ \A f \in Files, form \in Forms : disk'[<<f, form>>].key \in Keys =>
            \/ disk'[<<f, form>>] = disk[<<f, form>>]
            \/ (/\ job[p].phase \in Holding /\ f = job[p].file /\ k.phase \notin Young
                /\ disk'[<<f, form>>].key = job[p].data.key)
  BY <1>1, <1>4, <1>8, SameCommands
<1>11. Set(p, k)
  BY <1>4
<1>12. \A f \in Files : Plain(f)' = Plain(f) \/ Plain(f)'.pw = Clear
  BY <1>9
<1> HIDE DEF v
<1> QED
  BY <1>10, <1>11, <1>12, PlaceStep

\* Nothing else brings a key anywhere.
LEMMA WritePlace ==
    ASSUME TypeInv, PlaceInv, NEW p \in Procs,
           Make(p) \/ Verify(p) \/ Remove(p) \/ RemoveFails(p)
    PROVE  PlaceInv'
<1>1. /\ job[p] \in JobType /\ job[p].phase \in {"make", "verify", "remove"} /\ commands' = commands
      /\ job[p].phase \in Holding /\ Ready(job[p], commands)
  BY DEF Make, Verify, Remove, RemoveFails, TypeInv, JobsReady, Holding
<1>2. \A x \in Paths : disk'[x] = disk[x] \/ disk'[x] \in {NoFile, Fragment}
  BY DEF Make, Verify, Remove, RemoveFails, TypeInv, FilesType
<1>3. ASSUME NEW phase, Set(p, [job[p] EXCEPT !.phase = phase]),
             \/ (phase = "fill" /\ job[p].phase = "make")
             \/ phase = "remove"
      PROVE  PlaceInv'
  <2> DEFINE k == [job[p] EXCEPT !.phase = phase]
  <2>1. /\ k.cmd = job[p].cmd /\ k.num = job[p].num /\ k.file = job[p].file /\ k.data = job[p].data
        /\ k.phase = phase
    BY <1>1 DEF JobType
  <2>2. Set(p, k)
    BY <1>3
  <2> HIDE DEF k
  <2>3. k.phase \in Young => job[p].phase \in Young
    BY <1>3, <2>1 DEF Young
  <2> QED
    BY <1>1, <1>2, <2>1, <2>2, <2>3, SameCommands, PlaceDisk, PlaceStep
<1>4. CASE Return(p)
  BY <1>1, <1>2, <1>4, PlaceReturn DEF Return
<1>5. CASE Make(p)
  BY <1>3, <1>4, <1>5 DEF Make
<1>6. CASE Verify(p)
  BY <1>3, <1>4, <1>6 DEF Verify
<1>7. CASE Remove(p)
  <2>1. job[p].cmd # "create" /\ (Return(p) \/ NextFile(p, job[p]))
    BY <1>1, <1>7 DEF Remove, Ready
  <2> QED
    BY <1>1, <1>2, <1>4, <2>1, PlaceNext
<1> QED
  BY <1>4, <1>5, <1>6, <1>7 DEF RemoveFails

LEMMA ReadPlace ==
    ASSUME TypeInv, PlaceInv, NEW p \in Procs, NEW typed \in Passwords, ReadFile(p, typed)
    PROVE  PlaceInv'
<1>1. PICK k \in JobType : /\ Set(p, k) /\ k.phase \in {"done", "look", "read"}
                         /\ k.cmd \notin {"create", "seal"}
  BY ReadFileJob
<1>2. UNCHANGED <<disk, commands>>
  BY DEF ReadFile
<1>3. k.cmd # "create"
  BY <1>1
<1> QED
  BY <1>1, <1>2, <1>3, SameCommands, PlaceQuiet DEF Holding

LEMMA CrashPlace == ASSUME TypeInv, PlaceInv, NEW p \in Procs, Crash(p) PROVE PlaceInv'
<1>1. Set(p, Idle) /\ Idle.phase = "done" /\ Idle.cmd = "none" /\ UNCHANGED <<disk, commands>>
  BY DEF Crash, Idle
<1> QED
  BY <1>1, SameCommands, PlaceQuiet DEF Holding

LEMMA StepPlace == TypeInv /\ PlaceInv /\ [Next]_vars => PlaceInv'
<1> SUFFICES ASSUME TypeInv, PlaceInv, [Next]_vars PROVE PlaceInv'
  OBVIOUS
<1>1. ASSUME NEW p \in Procs, ProcStep(p) PROVE PlaceInv'
  BY <1>1, StartPlace, EarlyPlace, RefusePlace, LookPlace, FillPlace, WritePlace, ReadPlace,
     CrashPlace DEF ProcStep
<1>2. CASE UNCHANGED vars
  BY <1>2 DEF vars, PlaceInv, OneFile, Generated, OwnNumber, Unwritten, ReadUnder, Holds, Plain,
         KeyOf
<1> QED
  BY <1>1, <1>2 DEF Next

\* At first the key of a file is in that file, in one form.
LEMMA FirstForm ==
    ASSUME Init
    PROVE  \E pw \in Passwords, start \in [Files -> {"absent", "clear", "envelope", "sealed"}] :
             \A f \in Files, form \in Forms :
               LET c == disk[<<f, form>>]
               IN  c = NoFile \/ (/\ c.key = f /\ c.pw \in {Clear, pw}
                                  /\ form = IF start[f] = "sealed" THEN "sealed" ELSE "plain")
<1>1. PICK pw \in Passwords, start \in [Files -> {"absent", "clear", "envelope", "sealed"}] :
        disk = [x \in Paths |-> StartContent(x[1], x[2], start[x[1]], pw)]
  BY DEF Init
<1>2. ASSUME NEW f \in Files, NEW form \in Forms, disk[<<f, form>>] # NoFile
      PROVE  /\ disk[<<f, form>>].key = f /\ disk[<<f, form>>].pw \in {Clear, pw}
             /\ form = IF start[f] = "sealed" THEN "sealed" ELSE "plain"
  <2>1. disk[<<f, form>>] = StartContent(f, form, start[f], pw)
    BY <1>1 DEF Paths
  <2> QED
    BY <1>2, <2>1 DEF StartContent, Encrypt
<1> QED
  BY <1>2

LEMMA InitPlace == Init => PlaceInv
<1> SUFFICES ASSUME Init PROVE PlaceInv
  OBVIOUS
<1>1. \A f \in Files, form \in Forms : disk[<<f, form>>] = NoFile \/ disk[<<f, form>>].key = f
  BY FirstForm
<1>2. \A p \in Procs : job[p].phase = "done" /\ job[p].cmd = "none"
  BY DEF Init, Idle
<1>3. ASSUME NEW k \in Keys, NEW f \in Files, Holds(k, f) PROVE k = f
  <2>1. PICK form \in Forms : disk[<<f, form>>].key = k
    BY <1>2, <1>3 DEF Holds, Holding
  <2> QED
    BY <1>1, <2>1, NoKey
<1>4. OneFile
  BY <1>3 DEF OneFile
<1>5. commands = 0 /\ NumFiles \in Nat
  BY Bounds DEF Init
<1>6. Generated
  BY <1>3, <1>5 DEF Generated, Files
<1> QED
  BY <1>2, <1>4, <1>6 DEF PlaceInv, OwnNumber, Unwritten, ReadUnder

-----------------------------------------------------------------------------
(***************************************************************************)
(* The vault implements KeyStore                                           *)
(***************************************************************************)

\* The forms of a key, as the store sees them.
FormsOf(k) == {disk[x].pw : x \in {y \in Paths : disk[y].key = k}}

LEMMA FormsAre == FormsOnDisk = [k \in Keys |-> FormsOf(k)]
BY DEF FormsOnDisk, FormsOf

\* Each of a key's paths is one of the two of the file it is in.
LEMMA PathsOf ==
    ASSUME PlaceInv, NEW k \in Keys, NEW f \in Files, Holds(k, f), NEW x \in Paths, disk[x].key = k
    PROVE  x = <<f, "plain">> \/ x = <<f, "sealed">>
<1>1. PICK g \in Files, form \in Forms : x = <<g, form>>
  BY DEF Paths
<1>2. Holds(k, g)
  BY <1>1 DEF Holds
<1>3. g = f
  BY <1>2 DEF PlaceInv, OneFile
<1> QED
  BY <1>1, <1>3 DEF Forms

\* No key's forms change if what changes on disk is no key's.
LEMMA SameForms ==
    ASSUME \A x \in Paths :
             disk'[x] = disk[x] \/ (disk[x].key \notin Keys /\ disk'[x].key \notin Keys)
    PROVE  FormsOnDisk' = FormsOnDisk
<1>1. ASSUME NEW k \in Keys PROVE FormsOf(k)' = FormsOf(k)
  <2>1. \A x \in Paths : disk'[x].key = k <=> disk[x].key = k
    OBVIOUS
  <2>2. \A x \in Paths : disk[x].key = k => disk'[x].pw = disk[x].pw
    OBVIOUS
  <2> QED
    BY <2>1, <2>2 DEF FormsOf
<1> QED
  BY <1>1 DEF FormsOnDisk, FormsOf

\* The forms of one key change if one path does.
LEMMA OtherForms ==
    ASSUME NEW k \in Keys,
           \A x \in Paths : disk'[x] = disk[x] \/ (disk[x].key \notin Keys \ {k} /\ disk'[x].key \notin Keys \ {k})
    PROVE  FormsOnDisk' = [FormsOnDisk EXCEPT ![k] = FormsOf(k)']
<1>1. ASSUME NEW c \in Keys \ {k} PROVE FormsOf(c)' = FormsOf(c)
  <2>1. \A x \in Paths : disk'[x].key = c <=> disk[x].key = c
    OBVIOUS
  <2>2. \A x \in Paths : disk[x].key = c => disk'[x].pw = disk[x].pw
    OBVIOUS
  <2> QED
    BY <2>1, <2>2 DEF FormsOf
<1>2. FormsOnDisk' = [c \in Keys |-> FormsOf(c)']
  BY DEF FormsOnDisk, FormsOf
<1> QED
  BY <1>1, <1>2, FormsAre

\* What leaves every key where it is is a step or a stutter of the store.
LEMMA QuietStore ==
    ASSUME unguarded \subseteq unguarded', unguarded' \subseteq Keys,
           \A x \in Paths :
             disk'[x] = disk[x] \/ (disk[x].key \notin Keys /\ disk'[x].key \notin Keys)
    PROVE  Store!StoreNext
<1>1. Store!Excuse
  BY SameForms DEF Store!Excuse
<1> QED
  BY <1>1 DEF Store!StoreNext

\* A key is written: a new one, or the sealed form of one that is in the clear.
LEMMA FillStore ==
    ASSUME TypeInv, TypeInv', SafeInv, PlaceInv, NEW p \in Procs,
           Fill(p) \/ FillFails(p) \/ FillDamaged(p)
    PROVE  [Store!StoreNext]_(Store!store)
<1>1. /\ job[p] \in JobType /\ job[p].phase = "fill" /\ Ready(job[p], commands) /\ WritesWell(p)
      /\ unguarded \subseteq unguarded' /\ unguarded' \subseteq Keys
      /\ job[p].data \in Contents /\ job[p].cmd \in {"create", "seal"}
  BY DEF Fill, FillFails, FillDamaged, TypeInv, JobsReady, Ready, HistoryType, SafeInv
<1>2. PICK c \in {job[p].data, Fragment} : Put(p, c) /\ (c # Fragment => unguarded' = unguarded)
  BY DEF Fill, FillFails, FillDamaged
<1>3. /\ Path(p) \in Paths /\ Path(p) = <<job[p].file, job[p].form>> /\ job[p].file \in Files
      /\ job[p].form \in Forms
      /\ <<job[p].file, "plain">> \in Paths /\ <<job[p].file, "plain">> # <<job[p].file, "sealed">>
  BY <1>1, JobPaths
<1> DEFINE pw == job[p].data.pw
<1>k. PICK k : k = job[p].data.key
  OBVIOUS
<1>4. CASE writing[Path(p)] # p \/ c = Fragment \/ k \notin Keys
  <2>1. writing[Path(p)] = p => disk[Path(p)] = Fragment
    BY <1>3 DEF TypeInv, Handles
  <2>2. \A x \in Paths :
          disk'[x] = disk[x] \/ (disk[x].key \notin Keys /\ disk'[x].key \notin Keys)
    BY <1>k, <1>2, <1>3, <1>4, <2>1, NoKey DEF Put, TypeInv, FilesType
  <2> QED
    BY <1>1, <2>2, QuietStore
<1>5. CASE writing[Path(p)] = p /\ c # Fragment /\ k \in Keys
  <2>1. /\ disk' = [disk EXCEPT ![Path(p)] = job[p].data] /\ disk[Path(p)] = Fragment
        /\ unguarded' = unguarded
    BY <1>2, <1>3, <1>5 DEF Put, TypeInv, Handles
  <2>2. Fragment.key \notin Keys
    BY NoKey
  <2>3. disk'[Path(p)] = job[p].data /\ \A x \in Paths \ {Path(p)} : disk'[x] = disk[x]
    BY <1>3, <2>1 DEF TypeInv, FilesType
  <2>4. FormsOnDisk' = [FormsOnDisk EXCEPT ![k] = FormsOf(k)']
    <3>1. \A x \in Paths :
            disk'[x] = disk[x] \/ (disk[x].key \notin Keys \ {k} /\ disk'[x].key \notin Keys \ {k})
      BY <1>k, <2>1, <2>2, <2>3
    <3> QED
      BY <1>5, <3>1, OtherForms
  <2>5. FormsOf(k)' = FormsOf(k) \cup {pw}
    <3>1. ASSUME NEW x \in Paths PROVE disk'[x].key = k <=> (x = Path(p) \/ disk[x].key = k)
      BY <1>k, <2>3
    <3>2. ASSUME NEW x \in Paths, disk[x].key = k PROVE x # Path(p) /\ disk'[x].pw = disk[x].pw
      BY <1>5, <2>1, <2>2, <2>3, <3>2
    <3>3. ASSUME NEW w \in FormsOf(k)' PROVE w \in FormsOf(k) \cup {pw}
      <4>1. PICK x \in Paths : disk'[x].key = k /\ w = disk'[x].pw
        BY <3>3 DEF FormsOf
      <4> QED
        BY <2>3, <3>1, <3>2, <4>1 DEF FormsOf
    <3>4. ASSUME NEW w \in FormsOf(k) \cup {pw} PROVE w \in FormsOf(k)'
      <4>1. CASE w = pw
        BY <1>k, <1>3, <2>3, <4>1 DEF FormsOf
      <4>2. CASE w \in FormsOf(k)
        <5>1. PICK x \in Paths : disk[x].key = k /\ w = disk[x].pw
          BY <4>2 DEF FormsOf
        <5>2. disk'[x].key = k /\ w = disk'[x].pw
          BY <3>1, <3>2, <5>1
        <5> QED
          BY <5>2 DEF FormsOf
      <4> QED
        BY <3>4, <4>1, <4>2
    <3> QED
      BY <3>3, <3>4
  <2>6. FormsOnDisk[k] = FormsOf(k)
    BY <1>5, FormsAre
  <2>7. pw \in Store!Forms
    BY <1>1 DEF Contents, Store!Forms
  <2>8. CASE job[p].cmd = "create"
    <3>1. k = KeyOf(job[p]) /\ job[p].phase \in Young
      BY <1>k, <1>1, <2>8 DEF Ready, KeyOf, Young
    <3>2. \A x \in Paths : disk[x].key # k
      BY <2>8, <3>1 DEF PlaceInv, Unwritten, Paths
    <3>3. FormsOf(k) = {}
      BY <3>2 DEF FormsOf
    <3>4. FormsOnDisk' = [FormsOnDisk EXCEPT ![k] = {pw}]
      BY <2>4, <2>5, <3>3
    <3>5. Store!Create(k, pw)
      BY <2>1, <2>6, <3>3, <3>4 DEF Store!Create
    <3> QED
      BY <1>5, <2>7, <3>5 DEF Store!StoreNext
  <2>9. CASE job[p].cmd = "seal"
    <3>1. /\ job[p].form = "sealed" /\ pw \in Passwords /\ pw # Clear
      BY <1>1, <2>9, Bounds DEF Ready
    <3>2. Plain(job[p].file).key = k /\ Plain(job[p].file).pw \in {Clear, pw}
      <4>1. SourceKept(p) /\ k # Torn
        BY <1>1, <1>5, <2>9, NoKey DEF WritesWell
      <4>2. Plain(job[p].file).key = k
        BY <1>k, <4>1 DEF SourceKept
      <4>3. job[p].phase \in Holding
        BY <1>1 DEF Holding
      <4> QED
        BY <1>k, <2>9, <4>2, <4>3 DEF PlaceInv, ReadUnder
    <3>3. FormsOf(k) = {Plain(job[p].file).pw}
      <4>1. Holds(k, job[p].file)
        BY <1>k, <1>1 DEF Holds, Holding
      <4>2. ASSUME NEW x \in Paths, disk[x].key = k PROVE x = <<job[p].file, "plain">>
        <5>1. x # Path(p)
          BY <1>5, <2>1, <2>2, <4>2
        <5> QED
          BY <1>3, <1>5, <3>1, <4>1, <4>2, <5>1, PathsOf
      <4> QED
        BY <1>3, <3>2, <4>2 DEF FormsOf, Plain
    <3>4. CASE Plain(job[p].file).pw = pw
      <4>1. FormsOf(k)' = FormsOnDisk[k]
        BY <2>5, <2>6, <3>3, <3>4
      <4>2. FormsOnDisk' = FormsOnDisk
        BY <1>5, <2>4, <4>1, FormsAre
      <4> QED
        BY <2>1, <4>2 DEF Store!store
    <3>5. CASE Plain(job[p].file).pw = Clear
      <4>1. FormsOnDisk' = [FormsOnDisk EXCEPT ![k] = {Clear, pw}]
        <5>1. FormsOf(k)' = {Clear, pw}
          BY <2>5, <3>3, <3>5
        <5> QED
          BY <2>4, <5>1
      <4>2. Store!Seal(k, pw)
        BY <2>1, <2>6, <3>3, <3>5, <4>1 DEF Store!Seal
      <4> QED
        BY <1>5, <3>1, <4>2 DEF Store!StoreNext
    <3> QED
      BY <3>2, <3>4, <3>5
  <2> QED
    BY <1>1, <2>8, <2>9
<1> QED
  BY <1>4, <1>5

\* The plaintext goes when the sealed file holds its key, or when nothing is
\* promised of its key.
LEMMA RemoveStore ==
    ASSUME TypeInv, TypeInv', SafeInv, PlaceInv, NEW p \in Procs, Remove(p)
    PROVE  [Store!StoreNext]_(Store!store)
<1> DEFINE x == <<job[p].file, "plain">>
           s == <<job[p].file, "sealed">>
<1>1. /\ job[p] \in JobType /\ job[p].phase = "remove" /\ Ready(job[p], commands) /\ WritesWell(p)
      /\ unguarded' = unguarded /\ unguarded \subseteq Keys /\ job[p].cmd = "seal"
      /\ disk' = disk \/ disk' = [disk EXCEPT ![x] = NoFile]
  BY DEF Remove, TypeInv, JobsReady, Ready, HistoryType, SafeInv
<1>2. x \in Paths /\ s \in Paths /\ x # s /\ job[p].file \in Files
  BY <1>1, JobPaths
<1>k. PICK k : k = disk[x].key
  OBVIOUS
<1>3. NoFile.key \notin Keys
  BY NoKey
<1>4. CASE disk' = disk \/ k \notin Keys
  <2>1. \A y \in Paths :
          disk'[y] = disk[y] \/ (disk[y].key \notin Keys /\ disk'[y].key \notin Keys)
    BY <1>k, <1>1, <1>2, <1>3, <1>4 DEF TypeInv, FilesType
  <2> QED
    BY <1>1, <2>1, QuietStore
<1>5. CASE disk' = [disk EXCEPT ![x] = NoFile] /\ k \in Keys
  <2>1. disk'[x] = NoFile /\ \A y \in Paths \ {x} : disk'[y] = disk[y]
    BY <1>2, <1>5 DEF TypeInv, FilesType
  <2>2. FormsOnDisk' = [FormsOnDisk EXCEPT ![k] = FormsOf(k)']
    <3>1. \A y \in Paths :
            disk'[y] = disk[y] \/ (disk[y].key \notin Keys \ {k} /\ disk'[y].key \notin Keys \ {k})
      BY <1>k, <1>3, <2>1
    <3> QED
      BY <1>5, <3>1, OtherForms
  <2>3. FormsOnDisk[k] = FormsOf(k)
    BY <1>5, FormsAre
  <2>4. \A y \in Paths : disk[y].key = k => y = x \/ y = s
    <3>1. Holds(k, job[p].file)
      BY <1>k DEF Holds, Forms
    <3> QED
      BY <1>2, <1>5, <3>1, PathsOf
  <2>5. disk[s] = job[p].data /\ SourceKept(p) /\ disk'[s] = job[p].data
    BY <1>1, <1>2, <2>1 DEF WritesWell, Sealed
  <2>6. CASE job[p].data.key = Torn
    <3>1. k \in unguarded /\ disk[s].key # k
      BY <1>k, <1>5, <2>5, <2>6, NoKey DEF SourceKept, Plain
    <3>2. \A y \in Paths : disk'[y].key # k
      BY <1>3, <1>5, <2>1, <2>4, <3>1
    <3>3. FormsOf(k)' = {}
      BY <3>2 DEF FormsOf
    <3>4. Store!Lose(k)
      BY <1>1, <2>2, <3>1, <3>3 DEF Store!Lose
    <3> QED
      BY <1>5, <3>4 DEF Store!StoreNext
  <2>7. CASE job[p].data.key # Torn
    <3> DEFINE pw == job[p].data.pw
    <3>1. k = job[p].data.key /\ disk[s].key = k /\ disk[s].pw = pw
      BY <1>k, <2>5, <2>7 DEF SourceKept, Plain
    <3>2. disk[x].pw \in {Clear, pw}
      <4>1. Plain(job[p].file).key = job[p].data.key /\ job[p].phase \in Holding
        BY <1>k, <1>1, <3>1 DEF Plain, Holding
      <4> QED
        BY <1>1, <4>1 DEF PlaceInv, ReadUnder, Plain
    <3>3. pw \in Passwords /\ pw # Clear
      BY <1>1, Bounds DEF Ready
    <3>4. FormsOf(k) = {disk[x].pw, pw}
      BY <1>k, <1>2, <2>4, <3>1 DEF FormsOf
    <3>5. FormsOf(k)' = {pw}
      <4>1. \A y \in Paths : disk'[y].key = k <=> y = s
        BY <1>2, <1>3, <1>5, <2>1, <2>4, <2>5, <3>1
      <4>2. disk'[s].pw = pw
        BY <2>5
      <4>3. ASSUME NEW w \in FormsOf(k)' PROVE w = pw
        <5>1. PICK y \in Paths : disk'[y].key = k /\ w = disk'[y].pw
          BY <4>3 DEF FormsOf
        <5> QED
          BY <4>1, <4>2, <5>1
      <4>4. pw \in FormsOf(k)'
        <5>1. disk'[s].key = k
          BY <1>2, <4>1
        <5> QED
          BY <1>2, <4>2, <5>1 DEF FormsOf
      <4> QED
        BY <4>3, <4>4
    <3>6. CASE disk[x].pw = pw
      <4>1. FormsOf(k)' = FormsOnDisk[k]
        BY <2>3, <3>4, <3>5, <3>6
      <4>2. FormsOnDisk' = FormsOnDisk
        BY <1>5, <2>2, <4>1, FormsAre
      <4> QED
        BY <1>1, <4>2 DEF Store!store
    <3>7. CASE disk[x].pw = Clear
      <4>1. FormsOnDisk[k] = {Clear, pw}
        BY <2>3, <3>4, <3>7
      <4>2. FormsOf(k)' = FormsOnDisk[k] \ {Clear}
        BY <3>3, <3>5, <4>1
      <4>3. Store!Uncover(k)
        BY <1>1, <2>2, <3>3, <4>1, <4>2 DEF Store!Uncover
      <4> QED
        BY <1>5, <4>3 DEF Store!StoreNext
    <3> QED
      BY <3>2, <3>6, <3>7
  <2> QED
    BY <2>6, <2>7
<1> QED
  BY <1>1, <1>4, <1>5

\* What is made is empty, and what is removed when it does not read back is damaged.
LEMMA MakeVerifyStore ==
    ASSUME TypeInv, TypeInv', SafeInv, NEW p \in Procs, Make(p) \/ Verify(p)
    PROVE  Store!StoreNext
<1>1. /\ unguarded' = unguarded /\ unguarded' \subseteq Keys
      /\ NoFile.key \notin Keys /\ Fragment.key \notin Keys
  BY NoKey DEF Make, Verify, TypeInv, HistoryType
<1>2. CASE Make(p)
  <2>1. Path(p) \in Paths
    BY <1>2, JobPaths DEF Make
  <2>2. disk' = disk \/ (disk[Path(p)] = NoFile /\ disk' = [disk EXCEPT ![Path(p)] = Fragment])
    BY <1>2 DEF Make, CreateNew
  <2>3. \A y \in Paths :
          disk'[y] = disk[y] \/ (disk[y].key \notin Keys /\ disk'[y].key \notin Keys)
    BY <1>1, <2>1, <2>2 DEF TypeInv, FilesType
  <2> QED
    BY <1>1, <2>3, QuietStore
<1>3. CASE Verify(p)
  <2>1. Path(p) \in Paths /\ job[p].form = "sealed" /\ Path(p) = <<job[p].file, "sealed">>
    BY <1>3, JobPaths DEF Verify, TypeInv, JobsReady, Ready
  <2>2. disk[Path(p)] \in {job[p].data, Fragment}
    BY <1>3, <2>1 DEF Verify, SafeInv, WritesWell, Sealed
  <2>3. disk' = disk \/ (disk[Path(p)] = Fragment /\ disk' = [disk EXCEPT ![Path(p)] = NoFile])
    BY <1>3, <2>2 DEF Verify, ReadsBack
  <2>4. \A y \in Paths :
          disk'[y] = disk[y] \/ (disk[y].key \notin Keys /\ disk'[y].key \notin Keys)
    BY <1>1, <2>1, <2>3 DEF TypeInv, FilesType
  <2> QED
    BY <1>1, <2>4, QuietStore
<1> QED
  BY <1>2, <1>3

LEMMA StepStore ==
    TypeInv /\ TypeInv' /\ SafeInv /\ PlaceInv /\ [Next]_vars => [Store!StoreNext]_(Store!store)
<1> SUFFICES ASSUME TypeInv, TypeInv', SafeInv, PlaceInv, [Next]_vars
             PROVE  [Store!StoreNext]_(Store!store)
  OBVIOUS
<1>1. ASSUME UNCHANGED disk, unguarded \subseteq unguarded' PROVE Store!StoreNext
  <2>1. unguarded' \subseteq Keys
    BY DEF TypeInv, HistoryType
  <2> QED
    BY <1>1, <2>1, QuietStore
<1>2. ASSUME NEW p \in Procs, ProcStep(p) PROVE [Store!StoreNext]_(Store!store)
  <2>1. \/ (UNCHANGED disk /\ unguarded \subseteq unguarded')
        \/ Make(p) \/ Fill(p) \/ FillFails(p) \/ FillDamaged(p) \/ Verify(p) \/ Remove(p)
    BY <1>2 DEF ProcStep, StartCreate, StartSeal, StartRead, Ask, AskFails, Check, Refuse, Look,
                ReadFile, RemoveFails, Crash
  <2> QED
    BY <1>1, <2>1, FillStore, RemoveStore, MakeVerifyStore
<1>3. CASE UNCHANGED vars
  BY <1>1, <1>3 DEF vars
<1> QED
  BY <1>2, <1>3 DEF Next

\* At first each key is on disk in one form, if it is.
LEMMA InitStore == Init => Store!StoreInit
<1> SUFFICES ASSUME Init PROVE Store!StoreInit
  OBVIOUS
<1>1. PICK pw \in Passwords, start \in [Files -> {"absent", "clear", "envelope", "sealed"}] :
        \A f \in Files, form \in Forms :
          LET c == disk[<<f, form>>]
          IN  c = NoFile \/ (/\ c.key = f /\ c.pw \in {Clear, pw}
                             /\ form = IF start[f] = "sealed" THEN "sealed" ELSE "plain")
  BY FirstForm
<1>2. ASSUME NEW k \in Keys PROVE FormsOf(k) \in {{}} \cup {{w} : w \in Store!Forms}
  <2>1. CASE \A x \in Paths : disk[x].key # k
    <3>1. FormsOf(k) = {}
      BY <2>1 DEF FormsOf
    <3> QED
      BY <3>1
  <2>2. CASE \E x \in Paths : disk[x].key = k
    <3>1. PICK x \in Paths : disk[x].key = k
      BY <2>2
    <3>2. ASSUME NEW y \in Paths, disk[y].key = k
          PROVE  /\ y = <<k, IF start[k] = "sealed" THEN "sealed" ELSE "plain">>
                 /\ disk[y].pw \in {Clear, pw}
      <4>1. PICK f \in Files, form \in Forms : y = <<f, form>>
        BY DEF Paths
      <4>2. disk[y] # NoFile
        BY <3>2, NoKey
      <4> QED
        BY <1>1, <3>2, <4>1, <4>2
    <3>3. FormsOf(k) = {disk[x].pw}
      BY <3>1, <3>2 DEF FormsOf
    <3>4. disk[x].pw \in Store!Forms
      BY <3>1, <3>2 DEF Store!Forms
    <3> QED
      BY <3>3, <3>4
  <2> QED
    BY <2>1, <2>2
<1>3. FormsOnDisk \in [Keys -> {{}} \cup {{w} : w \in Store!Forms}]
  BY <1>2, FormsAre
<1> QED
  BY <1>3 DEF Store!StoreInit, Init

\* The vault, with its files, its concurrent commands, their failures and crashes,
\* does to the keys only what KeyStore allows: seal writes the sealed form before it
\* removes the clear one, and no command overwrites or removes anything else.
THEOREM ImplementsStoreHolds == Spec => ImplementsStore
BY VaultInvariance, InitSafe, StepSafe, InitPlace, StepPlace, InitStore, StepStore, PTL
DEF Spec, ImplementsStore, Store!StoreSpec
=============================================================================
