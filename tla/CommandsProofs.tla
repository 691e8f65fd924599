---------------------------- MODULE CommandsProofs ----------------------------
(***************************************************************************)
(* Proofs about Commands: batch and import are all or nothing, an import   *)
(* of an export restores it, the prompt reads the latest version, and a    *)
(* batch of one goroutine loses nothing.                                   *)
(***************************************************************************)
EXTENDS Commands, BatchTransactionProofs

-----------------------------------------------------------------------------
(* What a file stands for.                                                 *)

\* The operations the first entries of a file stand for, by kind of command.
Meant(kind, s) ==
    CASE kind = "batch" -> [i \in DOMAIN s |-> OperationOf(s[i])]
      [] kind = "import" -> [i \in DOMAIN s |-> EntryOperation(s[i])]
      [] kind = "importSkip" -> [i \in DOMAIN GoodEntries(s) |-> EntryOperation(GoodEntries(s)[i])]

\* The entries of a file, by kind of command.
ItemsOf(kind) == IF kind = "batch" THEN FileOperation ELSE FileEntry

\* The commands that run a file as one batch.
BatchKinds == {"batch", "import", "importSkip"}

\* Nothing read, nothing meant.
LEMMA MeantNothing ==
    ASSUME NEW kind \in BatchKinds
    PROVE  Meant(kind, <<>>) = <<>>
<1>1. GoodEntries(<<>>) = <<>>
  <2>1. {i \in DOMAIN <<>> : ParseImportEntry(<<>>[i]) # NoKey} = {}
    OBVIOUS
  <2>2. Cardinality({}) = 0
    BY FS_EmptySet
  <2>. QED BY <2>1, <2>2 DEF GoodEntries, At
<1>. QED BY <1>1 DEF Meant, BatchKinds

\* The good entries after one more.
LEMMA GoodAppend ==
    ASSUME NEW s \in Seq(FileEntry), NEW x \in FileEntry
    PROVE  /\ GoodEntries(s) \in Seq(FileEntry)
           /\ ParseImportEntry(x) = NoKey => GoodEntries(Append(s, x)) = GoodEntries(s)
           /\ ParseImportEntry(x) # NoKey => GoodEntries(Append(s, x)) = Append(GoodEntries(s), x)
<1>. DEFINE G(t) == {i \in DOMAIN t : ParseImportEntry(t[i]) # NoKey}
<1>1. PICK I \in SUBSET DOMAIN s : I = G(s)
  OBVIOUS
<1>2. /\ DOMAIN Append(s, x) = DOMAIN s \cup {Len(s) + 1} /\ Append(s, x)[Len(s) + 1] = x
      /\ \A i \in DOMAIN s : Append(s, x)[i] = s[i]
  OBVIOUS
<1>3. At(s, I) \in Seq(FileEntry)
  BY AtElements
<1>4. /\ At(Append(s, x), I) = At(s, I)
      /\ At(Append(s, x), I \cup {Len(s) + 1}) = Append(At(s, I), x)
  BY AtAppend
<1>5. ASSUME ParseImportEntry(x) = NoKey PROVE G(Append(s, x)) = I
  BY <1>1, <1>2, <1>5
<1>6. ASSUME ParseImportEntry(x) # NoKey PROVE G(Append(s, x)) = I \cup {Len(s) + 1}
  BY <1>1, <1>2, <1>6
<1>7. \A t : GoodEntries(t) = At(t, G(t))
  BY DEF GoodEntries
<1>. QED BY <1>1, <1>3, <1>4, <1>5, <1>6, <1>7

\* Mapping the elements of a sequence, after one more.
LEMMA MappedAppend ==
    ASSUME NEW S, NEW s \in Seq(S), NEW x \in S
    PROVE  /\ [i \in DOMAIN Append(s, x) |-> OperationOf(Append(s, x)[i])]
                = Append([i \in DOMAIN s |-> OperationOf(s[i])], OperationOf(x))
           /\ [i \in DOMAIN Append(s, x) |-> EntryOperation(Append(s, x)[i])]
                = Append([i \in DOMAIN s |-> EntryOperation(s[i])], EntryOperation(x))
<1>. DEFINE n == Len(s)
            t == Append(s, x)
<1>1. /\ n \in Nat /\ DOMAIN s = 1 .. n /\ DOMAIN t = 1 .. (n + 1) /\ t[n + 1] = x
      /\ \A i \in 1 .. n : t[i] = s[i]
  OBVIOUS
<1>. HIDE DEF n, t
<1>2. ASSUME NEW f, f = [i \in 1 .. n |-> OperationOf(s[i])]
      PROVE  [i \in 1 .. (n + 1) |-> OperationOf(t[i])] = Append(f, OperationOf(x))
  BY <1>1, <1>2
<1>3. ASSUME NEW f, f = [i \in 1 .. n |-> EntryOperation(s[i])]
      PROVE  [i \in 1 .. (n + 1) |-> EntryOperation(t[i])] = Append(f, EntryOperation(x))
  BY <1>1, <1>3
<1>. QED BY <1>1, <1>2, <1>3 DEF t

\* One more entry of a file means one more operation, or nothing if the entry
\* is bad and skipped.
LEMMA MeantAppend ==
    ASSUME NEW kind \in BatchKinds, NEW s \in Seq(ItemsOf(kind)), NEW x \in ItemsOf(kind)
    PROVE  /\ kind = "batch" => Meant(kind, Append(s, x)) = Append(Meant(kind, s), OperationOf(x))
           /\ kind # "batch" /\ ParseImportEntry(x) # NoKey =>
                Meant(kind, Append(s, x)) = Append(Meant(kind, s), EntryOperation(x))
           /\ kind = "importSkip" /\ ParseImportEntry(x) = NoKey =>
                Meant(kind, Append(s, x)) = Meant(kind, s)
<1>1. CASE kind = "batch"
  <2>1. Meant(kind, Append(s, x)) = Append(Meant(kind, s), OperationOf(x))
    BY <1>1, MappedAppend DEF Meant
  <2>. QED BY <1>1, <2>1
<1>2. CASE kind = "import"
  <2>1. Meant(kind, Append(s, x)) = Append(Meant(kind, s), EntryOperation(x))
    BY <1>2, MappedAppend DEF Meant
  <2>. QED BY <1>2, <2>1
<1>3. CASE kind = "importSkip"
  <2>1. s \in Seq(FileEntry) /\ x \in FileEntry
    BY <1>3 DEF ItemsOf
  <2>2. PICK g \in Seq(FileEntry) : g = GoodEntries(s)
    BY <2>1, GoodAppend
  <2>3. CASE ParseImportEntry(x) = NoKey
    <3>1. GoodEntries(Append(s, x)) = GoodEntries(s)
      BY <2>1, <2>3, GoodAppend
    <3>. QED BY <1>3, <2>3, <3>1 DEF Meant
  <2>4. CASE ParseImportEntry(x) # NoKey
    <3>1. GoodEntries(Append(s, x)) = Append(g, x)
      BY <2>1, <2>2, <2>4, GoodAppend
    <3>2. Meant(kind, Append(s, x)) = Append(Meant(kind, s), EntryOperation(x))
      BY <1>3, <2>1, <2>2, <3>1, MappedAppend DEF Meant
    <3>. QED BY <1>3, <2>4, <3>2
  <2>. QED BY <2>3, <2>4
<1>. QED BY <1>1, <1>2, <1>3 DEF BatchKinds

\* An operation of a file; the key of a bad entry is none.
FileOp == [key : Keys \cup {NoKey}, value : Values \cup {NoValue}]

\* The key of an entry is a tree key or none.
LEMMA EntryKey ==
    ASSUME NEW x \in FileEntry
    PROVE  ParseImportEntry(x) \in Keys \cup {NoKey}
BY NamesAreKeys DEF ParseImportEntry, HexKey, KeyHash, FileEntry

\* What the entries of a file are, as operations.
LEMMA FileOperations ==
    /\ \A x \in FileOperation : OperationOf(x) \in Op
    /\ \A x \in FileEntry : EntryOperation(x) \in FileOp
    /\ \A x \in FileEntry : ParseImportEntry(x) # NoKey => EntryOperation(x) \in Op
    /\ Op \subseteq FileOp
<1>1. \A x \in FileOperation : OperationOf(x) \in Op
  BY DEF FileOperation, OperationOf, Put, Delete, KeyHash, Op
<1>2. ASSUME NEW x \in FileEntry
      PROVE  /\ EntryOperation(x) \in FileOp
             /\ ParseImportEntry(x) # NoKey => EntryOperation(x) \in Op
  <2>1. ParseImportEntry(x) \in Keys \cup {NoKey} /\ EntryValue(x) \in Values
    BY EntryKey DEF FileEntry, EntryValue
  <2>. QED BY <2>1 DEF EntryOperation, Put, FileOp, Op
<1>3. Op \subseteq FileOp
  BY DEF Op, FileOp
<1>. QED BY <1>1, <1>2, <1>3

\* What a file means is a sequence of operations.
LEMMA MeantType ==
    ASSUME NEW kind \in BatchKinds, NEW s \in Seq(ItemsOf(kind))
    PROVE  Meant(kind, s) \in Seq(FileOp)
<1>1. ASSUME NEW t \in Seq(FileEntry)
      PROVE  [i \in DOMAIN t |-> EntryOperation(t[i])] \in Seq(FileOp)
  <2>1. \A i \in 1 .. Len(t) : EntryOperation(t[i]) \in FileOp
    BY FileOperations
  <2>. QED BY <2>1
<1>2. ASSUME NEW t \in Seq(FileOperation)
      PROVE  [i \in DOMAIN t |-> OperationOf(t[i])] \in Seq(FileOp)
  <2>1. \A i \in 1 .. Len(t) : OperationOf(t[i]) \in FileOp
    BY FileOperations
  <2>. QED BY <2>1
<1>3. s \in Seq(FileEntry) => GoodEntries(s) \in Seq(FileEntry)
  <2>. SUFFICES ASSUME s \in Seq(FileEntry) PROVE GoodEntries(s) \in Seq(FileEntry)
    OBVIOUS
  <2>1. PICK I \in SUBSET DOMAIN s : I = {i \in DOMAIN s : ParseImportEntry(s[i]) # NoKey}
    OBVIOUS
  <2>2. At(s, I) \in Seq(FileEntry)
    BY AtElements
  <2>. QED BY <2>1, <2>2 DEF GoodEntries
<1>. QED BY <1>1, <1>2, <1>3 DEF Meant, ItemsOf, BatchKinds

-----------------------------------------------------------------------------
(* The inductive invariant of the commands.                                *)

\* A process.
ProcessState ==
    [kind : BatchKinds \cup {"none", "library", "repl"},
     todo : Seq(FileOperation) \cup Seq(FileEntry), all : Seq(FileOp),
     executed : BOOLEAN, lines : Seq(Lines), asked : Nat]

\* The types of the variables of the commands.
CommandsTypeOK ==
    /\ backend \in {"memory", "pebble"}
    /\ proc \in ProcessState
    /\ ctx \in Nat
    /\ file \in Seq(FileEntry)
    /\ shown \in [version : Nat, value : Values \cup {NoValue}, latest : Values \cup {NoValue}]

\* Where the process of a batch or an import stands.  Until it calls Execute
\* its batch holds what the entries read so far mean, nobody executes it and
\* nothing of the file is lost; from then on until the commit the batch and
\* Execute hold the whole file, and the version is begun on the latest one.
FileCommandRight ==
    /\ proc.kind = "repl" => proc.todo \in Seq(FileEntry)
    /\ proc.executed => proc.kind \in BatchKinds /\ proc.todo = <<>>
    /\ proc.kind \in BatchKinds =>
         /\ \A u \in Users : u # cli => ex[u].pc = "idle"
         /\ ~proc.executed =>
              /\ ex[cli].pc = "idle"
              /\ proc.todo \in Seq(ItemsOf(proc.kind))
              /\ \E done \in Seq(ItemsOf(proc.kind)) :
                   /\ operations = Meant(proc.kind, done)
                   /\ proc.all = Meant(proc.kind, done \o proc.todo)
         /\ ex[cli].pc \in {"begin", "apply"} =>
              operations = proc.all /\ ex[cli].all = proc.all
         /\ ex[cli].pc = "apply" => ex[cli].base = Latest

\* Every entry of the exported file was read under its tree key from one
\* version and written in one format, with hexadecimal values or without, and
\* its name leads to that key, hashed or decoded.
FileRight(f) ==
    \E c \in Contents, format \in Formats, includeHex \in BOOLEAN : \A i \in DOMAIN f :
        /\ f[i] = ExportEntry(f[i].name, f[i].from, c[f[i].from], format, includeHex)
        /\ \/ f[i].from = KeyHash(f[i].name)
           \/ f[i].name \in DOMAIN HexOf /\ f[i].from = HexOf[f[i].name]

\* The prompt shows the latest version.
PromptRight == Prompt => ctx = Latest

\* A goroutine alone executes what is in the batch.
AloneRight ==
    Users = {cli} /\ ex[cli].pc # "idle" => operations = ex[cli].all /\ operations # <<>>

\* The inductive invariant.
CommandsInv ==
    /\ BatchInv
    /\ CommandsTypeOK
    /\ FileCommandRight
    /\ FileRight(file)
    /\ PromptRight
    /\ AloneRight

\* What a process finds when it is started.
LEMMA OpenedRight ==
    ASSUME BatchInv
    PROVE  /\ Newest(Opened) \in Nat
           /\ VersionsRight(Opened, OpenedParents, 1 + Newest(Opened))
<1>1. nextVersion \in Nat /\ VersionsRight(committed, parent, nextVersion)
  BY DEF BatchInv, BatchTypeOK
<1>2. VersionsRight(NoVersions, NoParents, 1)
  BY DEF VersionsRight, NoVersions, NoParents, Contents
<1>3. PICK n \in Nat : VersionsRight(Opened, OpenedParents, n)
  BY <1>1, <1>2 DEF Opened, OpenedParents
<1>4. Newest(Opened) \in DOMAIN Opened /\ \A w \in DOMAIN Opened : w <= Newest(Opened)
  BY <1>3, NewestExists
<1>5. Newest(Opened) \in Nat
  BY <1>3, <1>4 DEF VersionsRight
<1>6. \A w \in DOMAIN Opened : w \in Nat /\ w < 1 + Newest(Opened)
  BY <1>3, <1>4, <1>5 DEF VersionsRight
<1>. QED BY <1>3, <1>5, <1>6 DEF VersionsRight

\* A process that is started, or has ended, has an empty batch.
LEMMA FreshInv ==
    ASSUME BatchInv, operations' = <<>>, keyOps' = <<>>, ex' = [u \in Users |-> Idle],
           committed' = Opened, parent' = OpenedParents, nextVersion' = 1 + Newest(Opened)
    PROVE  /\ BatchInv' /\ AloneRight'
           /\ \A u \in Users : ex'[u].pc = "idle"
<1>1. Newest(Opened) \in Nat /\ VersionsRight(committed', parent', nextVersion') /\ nextVersion' \in Nat
  BY OpenedRight
<1>2. \A u \in Users : ex'[u] = Idle /\ ex'[u].pc = "idle"
  BY IdleRight
<1>3. BatchTypeOK'
  <2>1. ex' \in [Users -> ExecuteState]
    BY IdleRight
  <2>. QED BY <1>1, <2>1 DEF BatchTypeOK
<1>4. KeyOpsRight(operations', keyOps')
  BY DEF KeyOpsRight
<1>5. DistinctVersions'
  BY <1>2 DEF DistinctVersions
<1>6. \A u \in Users : ExecRight(ex'[u], committed', parent', nextVersion')
  BY <1>2, IdleRight
<1>7. BatchInv'
  BY <1>1, <1>3, <1>4, <1>5, <1>6 DEF BatchInv
<1>8. AloneRight'
  BY <1>2, ProcessIsUser DEF AloneRight
<1>. QED BY <1>2, <1>7, <1>8

\* tree.Put and tree.Delete.
LEMMA NewVersionInv ==
    ASSUME BatchInv, NEW k \in Keys, NEW v \in Values \cup {NoValue}, NewVersion(k, v)
    PROVE  BatchInv'
<1>1. /\ operations \in Seq(Op) /\ ex \in [Users -> ExecuteState] /\ nextVersion \in Nat
      /\ VersionsRight(committed, parent, nextVersion)
      /\ \A u \in Users : ExecRight(ex[u], committed, parent, nextVersion)
  BY DEF BatchInv, BatchTypeOK
<1>2. Latest \in DOMAIN committed
  BY <1>1, NewestExists DEF Latest
<1>3. PICK x \in Contents : x = [committed[Latest] EXCEPT ![k] = v]
  <2>1. committed[Latest] \in Contents
    BY <1>1, <1>2 DEF VersionsRight
  <2>. QED BY <2>1 DEF Contents
<1>4. /\ committed' = Assign(committed, nextVersion, x) /\ parent' = Assign(parent, nextVersion, Latest)
      /\ nextVersion' = nextVersion + 1 /\ UNCHANGED <<operations, keyOps, ex>>
  BY <1>3 DEF NewVersion
<1>5. nextVersion \notin DOMAIN committed
  BY <1>1 DEF VersionsRight
<1>6. PICK m \in Nat : m = nextVersion + 1 /\ nextVersion <= m /\ nextVersion < m
  BY <1>1
<1>7. /\ VersionsRight(committed', parent', m)
      /\ \A e \in ExecuteState :
           ExecRight(e, committed, parent, nextVersion) /\ (e.pc = "apply" => e.version # nextVersion) =>
               ExecRight(e, committed', parent', m)
  BY <1>1, <1>2, <1>4, <1>5, <1>6, VersionsGrow
<1>8. ASSUME NEW u \in Users PROVE ExecRight(ex[u], committed', parent', m)
  <2>1. ex[u] \in ExecuteState /\ ex[u].version \in Nat /\ ExecRight(ex[u], committed, parent, nextVersion)
    BY <1>1 DEF ExecuteState
  <2>2. ex[u].pc = "apply" => ex[u].version # nextVersion
    BY <1>1, <2>1 DEF ExecRight
  <2>. QED BY <1>7, <2>1, <2>2
<1>. QED BY <1>1, <1>4, <1>6, <1>7, <1>8 DEF BatchInv, BatchTypeOK, DistinctVersions

-----------------------------------------------------------------------------
(* The steps of the commands keep the invariant.                           *)

\* No process has nothing to do.
LEMMA NoProcessType ==
    /\ NoProcess \in ProcessState /\ NoProcess.kind = "none" /\ ~NoProcess.executed
    /\ NothingShown \in [version : Nat, value : Values \cup {NoValue}, latest : Values \cup {NoValue}]
<1>1. <<>> \in Seq(FileOperation) /\ <<>> \in Seq(FileOp) /\ <<>> \in Seq(Lines)
  OBVIOUS
<1>2. NotAsked \in Nat
  BY BatchBounds DEF NotAsked
<1>. QED BY <1>1, <1>2 DEF NoProcess, ProcessState, NothingShown

\* The commands begin with the invariant.
LEMMA CommandsInitInv == CommandsInit => CommandsInv
<1>. SUFFICES ASSUME CommandsInit PROVE CommandsInv
  OBVIOUS
<1>1. BatchInv
  BY BatchInitInv DEF CommandsInit
<1>2. CommandsTypeOK
  <2>1. <<>> \in Seq(FileEntry)
    OBVIOUS
  <2>. QED BY <2>1, NoProcessType DEF CommandsInit, CommandsTypeOK
<1>3. FileCommandRight /\ PromptRight
  BY NoProcessType DEF CommandsInit, FileCommandRight, PromptRight, Prompt, BatchKinds
<1>4. FileRight(file)
  <2>1. [k \in Keys |-> NoValue] \in Contents
    BY DEF Contents
  <2>2. "json" \in Formats /\ TRUE \in BOOLEAN /\ DOMAIN file = {}
    BY DEF Formats, CommandsInit
  <2>. QED BY <2>1, <2>2 DEF FileRight
<1>5. AloneRight
  BY ProcessIsUser, IdleRight DEF CommandsInit, BatchInit, AloneRight
<1>. QED BY <1>1, <1>2, <1>3, <1>4, <1>5 DEF CommandsInv

\* put and delete.
LEMMA RunPutInv ==
    ASSUME CommandsInv, proc = NoProcess, NEW k \in Keys, NEW v \in Values \cup {NoValue},
           NewVersion(k, v), UNCHANGED cmdVars
    PROVE  CommandsInv'
<1>1. BatchInv'
  BY NewVersionInv DEF CommandsInv
<1>2. proc' = NoProcess /\ UNCHANGED <<backend, ctx, file, shown, operations, ex>>
  BY DEF cmdVars, NewVersion
<1>3. CommandsTypeOK' /\ FileRight(file')
  BY <1>2 DEF CommandsInv, CommandsTypeOK
<1>4. FileCommandRight' /\ PromptRight'
  BY <1>2, NoProcessType DEF FileCommandRight, PromptRight, Prompt, BatchKinds
<1>5. AloneRight'
  BY <1>2 DEF CommandsInv, AloneRight
<1>. QED BY <1>1, <1>3, <1>4, <1>5 DEF CommandsInv

\* What --hex-key or KeyHash gives is a tree key, or none.
LEMMA ParsedKey ==
    ASSUME NEW n \in Keys, NEW hex \in BOOLEAN, ParseKey(n, hex) # NoKey
    PROVE  /\ ParseKey(n, hex) \in Keys
           /\ \/ ParseKey(n, hex) = KeyHash(n)
              \/ n \in DOMAIN HexOf /\ ParseKey(n, hex) = HexOf[n]
BY NamesAreKeys DEF ParseKey, HexKey, KeyHash

\* A process started on a file: nothing is read yet.
LEMMA StartFileInv ==
    ASSUME CommandsInv, NEW kind \in BatchKinds, NEW todo \in Seq(ItemsOf(kind)),
           Start(Process(kind, todo, Meant(kind, todo))), UNCHANGED <<backend, ctx, file, shown>>
    PROVE  CommandsInv'
<1>. DEFINE p == Process(kind, todo, Meant(kind, todo))
<1>1. /\ p \in ProcessState /\ p.kind = kind /\ p.todo = todo /\ p.all = Meant(kind, todo) /\ ~p.executed
  <2>1. Meant(kind, todo) \in Seq(FileOp) /\ todo \in Seq(FileOperation) \cup Seq(FileEntry)
    BY MeantType DEF ItemsOf
  <2>2. <<>> \in Seq(Lines)
    OBVIOUS
  <2>3. NotAsked \in Nat
    BY BatchBounds DEF NotAsked
  <2>. QED BY <2>1, <2>2, <2>3 DEF Process, NoProcess, ProcessState
<1>2. proc' = p /\ operations' = <<>>
  BY DEF Start
<1>. HIDE DEF p
<1>3. BatchInv' /\ AloneRight' /\ \A u \in Users : ex'[u].pc = "idle"
  BY FreshInv DEF CommandsInv, Start
<1>4. CommandsTypeOK' /\ FileRight(file')
  BY <1>1, <1>2 DEF CommandsInv, CommandsTypeOK
<1>5. PromptRight'
  BY <1>1, <1>2 DEF PromptRight, Prompt, BatchKinds
<1>6. FileCommandRight'
  <2>1. /\ operations' = Meant(kind, <<>>)
        /\ proc'.all = Meant(kind, <<>> \o proc'.todo) /\ <<>> \in Seq(ItemsOf(kind))
    <3>1. <<>> \o todo = todo /\ <<>> \in Seq(ItemsOf(kind))
      OBVIOUS
    <3>. QED BY <1>1, <1>2, <3>1, MeantNothing
  <2>2. kind # "repl"
    BY DEF BatchKinds
  <2>. QED BY <1>1, <1>2, <1>3, <2>1, <2>2, ProcessIsUser DEF FileCommandRight
<1>. QED BY <1>3, <1>4, <1>5, <1>6 DEF CommandsInv

\* batch and import are started.
LEMMA RunFileInv ==
    ASSUME CommandsInv,
           \/ \E ops \in BatchFiles : RunBatch(ops)
           \/ \E entries \in Imports \cup {file}, skip \in BOOLEAN : RunImport(entries, skip)
    PROVE  CommandsInv'
<1>1. ASSUME NEW ops \in BatchFiles, RunBatch(ops) PROVE CommandsInv'
  <2>1. PICK kind \in BatchKinds : kind = "batch"
    BY DEF BatchKinds
  <2>2. ops \in Seq(ItemsOf(kind))
    BY <2>1, FilesAreParsed DEF ItemsOf
  <2>3. Start(Process(kind, ops, Meant(kind, ops))) /\ UNCHANGED <<backend, ctx, file, shown>>
    BY <1>1, <2>1 DEF RunBatch, Meant
  <2>. QED BY <2>2, <2>3, StartFileInv
<1>2. ASSUME NEW entries \in Imports \cup {file}, NEW skip \in BOOLEAN, RunImport(entries, skip)
      PROVE  CommandsInv'
  <2>1. PICK kind \in BatchKinds : kind = IF skip THEN "importSkip" ELSE "import"
    BY DEF BatchKinds
  <2>2. entries \in Seq(ItemsOf(kind))
    BY <2>1, FilesAreParsed DEF ItemsOf, CommandsInv, CommandsTypeOK
  <2>3. Start(Process(kind, entries, Meant(kind, entries))) /\ UNCHANGED <<backend, ctx, file, shown>>
    BY <1>2, <2>1 DEF RunImport, Meant
  <2>. QED BY <2>2, <2>3, StartFileInv
<1>. QED BY <1>1, <1>2

\* An element moved from the front of a sequence to the end of another one.
LEMMA MovedElement ==
    ASSUME NEW S, NEW s \in Seq(S), NEW t \in Seq(S), t # <<>>
    PROVE  Append(s, Head(t)) \o Tail(t) = s \o t
<1>1. PICK a \in Seq(S) : a = Append(s, Head(t)) /\ Len(a) = Len(s) + 1
  <2>1. Append(s, Head(t)) \in Seq(S) /\ Len(Append(s, Head(t))) = Len(s) + 1
    OBVIOUS
  <2>. QED BY <2>1
<1>2. PICK b \in Seq(S) : b = Tail(t) /\ Len(b) = Len(t) - 1
  <2>1. Tail(t) \in Seq(S) /\ Len(Tail(t)) = Len(t) - 1
    OBVIOUS
  <2>. QED BY <2>1
<1>3. /\ Len(s) \in Nat /\ Len(t) \in Nat /\ Len(t) # 0
      /\ \A i \in 1 .. Len(s) : a[i] = s[i]
      /\ a[Len(s) + 1] = t[1]
      /\ \A i \in 1 .. (Len(t) - 1) : b[i] = t[i + 1]
  BY <1>1, <1>2
<1>4. /\ a \o b \in Seq(S) /\ s \o t \in Seq(S)
      /\ Len(a \o b) = Len(s) + Len(t) /\ Len(s \o t) = Len(s) + Len(t)
  BY <1>1, <1>2, <1>3
<1>5. ASSUME NEW i \in 1 .. (Len(s) + Len(t)) PROVE (a \o b)[i] = (s \o t)[i]
  <2>1. CASE i <= Len(s)
    BY <1>1, <1>2, <1>3, <2>1
  <2>2. CASE i = Len(s) + 1
    BY <1>1, <1>2, <1>3, <2>2
  <2>3. CASE i > Len(s) + 1
    <3>1. (a \o b)[i] = b[i - (Len(s) + 1)]
      BY <1>1, <1>2, <1>3, <2>3
    <3>2. (s \o t)[i] = t[i - Len(s)]
      BY <1>3, <2>3
    <3>3. b[i - (Len(s) + 1)] = t[(i - (Len(s) + 1)) + 1]
      BY <1>2, <1>3, <2>3
    <3>. QED BY <1>3, <3>1, <3>2, <3>3
  <2>4. i <= Len(s) \/ i = Len(s) + 1 \/ i > Len(s) + 1
    BY <1>3
  <2>. QED BY <2>1, <2>2, <2>3, <2>4
<1>6. PICK c \in Seq(S), d \in Seq(S) : c = a \o b /\ d = s \o t
  BY <1>4
<1>7. Len(c) = Len(d) /\ \A i \in 1 .. Len(c) : c[i] = d[i]
  BY <1>4, <1>5, <1>6
<1>8. c = d
  BY <1>7, SMTT(30)
<1>. QED BY <1>1, <1>2, <1>6, <1>8

\* A step that reads the next entry of a file: it is in the batch, or skipped.
LEMMA ReadInv ==
    ASSUME CommandsInv, proc.kind \in BatchKinds, proc.todo # <<>>, BatchInv',
           proc' = [proc EXCEPT !.todo = Tail(@)],
           UNCHANGED <<ex, committed, backend, ctx, file, shown>>,
           \A done \in Seq(ItemsOf(proc.kind)) : operations = Meant(proc.kind, done) =>
               operations' = Meant(proc.kind, Append(done, Head(proc.todo)))
    PROVE  CommandsInv'
<1>1. ~proc.executed /\ proc \in ProcessState
  BY DEF CommandsInv, FileCommandRight, CommandsTypeOK
<1>2. PICK kind \in BatchKinds : kind = proc.kind
  OBVIOUS
<1>3. PICK todo \in Seq(ItemsOf(kind)) : todo = proc.todo /\ todo # <<>>
  BY <1>1, <1>2 DEF CommandsInv, FileCommandRight
<1>4. PICK done \in Seq(ItemsOf(kind)) :
        operations = Meant(kind, done) /\ proc.all = Meant(kind, done \o todo)
  BY <1>1, <1>2, <1>3 DEF CommandsInv, FileCommandRight
<1>5. PICK rest \in Seq(ItemsOf(kind)) : rest = Tail(todo)
  <2>1. Tail(todo) \in Seq(ItemsOf(kind))
    BY <1>3
  <2>. QED BY <2>1
<1>6. PICK x \in ItemsOf(kind) : x = Head(todo)
  BY <1>3
<1>7. PICK read \in Seq(ItemsOf(kind)) : read = Append(done, x)
  <2>1. Append(done, x) \in Seq(ItemsOf(kind))
    BY <1>4, <1>6
  <2>. QED BY <2>1
<1>8. /\ proc' \in ProcessState /\ proc'.kind = kind /\ proc'.todo = rest
      /\ proc'.all = proc.all /\ ~proc'.executed
  <2>1. rest \in Seq(FileOperation) \cup Seq(FileEntry)
    BY <1>5 DEF ItemsOf
  <2>2. proc' = [proc EXCEPT !.todo = rest]
    BY <1>3, <1>5
  <2>. QED BY <1>1, <1>2, <2>1, <2>2 DEF ProcessState
<1>9. operations' = Meant(kind, read)
  BY <1>2, <1>3, <1>4, <1>6, <1>7
<1>10. read \o rest = done \o todo
  BY <1>3, <1>5, <1>6, <1>7, MovedElement
<1>11. CommandsTypeOK' /\ FileRight(file')
  BY <1>8, SMTT(30) DEF CommandsInv, CommandsTypeOK
<1>12. kind # "repl"
  BY DEF BatchKinds
<1>13. PromptRight'
  BY <1>8, <1>12 DEF PromptRight, Prompt
<1>14. \A u \in Users : ex'[u].pc = "idle"
  BY <1>1, <1>2 DEF CommandsInv, FileCommandRight
<1>15. FileCommandRight'
  BY <1>4, <1>8, <1>9, <1>10, <1>12, <1>14, ProcessIsUser DEF FileCommandRight
<1>16. AloneRight'
  BY <1>14, ProcessIsUser DEF AloneRight
<1>. QED BY <1>11, <1>13, <1>15, <1>16 DEF CommandsInv

\* The next entry of a file of a command.
LEMMA NextItem ==
    ASSUME CommandsInv, proc.kind \in BatchKinds, proc.todo # <<>>
    PROVE  Head(proc.todo) \in ItemsOf(proc.kind)
<1>1. PICK todo \in Seq(ItemsOf(proc.kind)) : todo = proc.todo /\ todo # <<>>
  BY DEF CommandsInv, FileCommandRight
<1>. QED BY <1>1

\* The operations of a file go into the batch one by one.
LEMMA FileAddInv ==
    ASSUME CommandsInv, BatchAdd \/ ImportAdd \/ ImportSkip
    PROVE  CommandsInv'
<1>1. PICK kind \in BatchKinds : kind = proc.kind /\ proc.todo # <<>>
  BY DEF BatchAdd, ImportAdd, ImportSkip, Importing, BatchKinds
<1>2. PICK x \in ItemsOf(kind) : x = Head(proc.todo)
  BY <1>1, NextItem
<1>3. CASE BatchAdd
  <2>1. kind = "batch" /\ x \in FileOperation
    BY <1>1, <1>2, <1>3 DEF BatchAdd, ItemsOf
  <2>2. PICK op \in Op : op = OperationOf(x)
    BY <2>1, FileOperations
  <2>3. /\ Add(cli, op) /\ proc' = [proc EXCEPT !.todo = Tail(@)]
        /\ UNCHANGED <<backend, ctx, file, shown>>
    BY <1>2, <1>3, <2>2 DEF BatchAdd
  <2>4. BatchInv'
    BY <2>3, AddInv, ProcessIsUser DEF CommandsInv
  <2>5. operations' = Append(operations, op) /\ UNCHANGED <<ex, committed>>
    BY <2>3 DEF Add
  <2>6. \A done \in Seq(ItemsOf(kind)) : operations = Meant(kind, done) =>
          operations' = Meant(kind, Append(done, x))
    BY <2>1, <2>2, <2>5, MeantAppend
  <2>. QED BY <1>1, <1>2, <2>3, <2>4, <2>5, <2>6, ReadInv
<1>4. CASE ImportAdd
  <2>1. kind # "batch" /\ x \in FileEntry /\ ParseImportEntry(x) # NoKey
    BY <1>1, <1>2, <1>4 DEF ImportAdd, Importing, ItemsOf
  <2>2. PICK op \in Op : op = EntryOperation(x)
    BY <2>1, FileOperations
  <2>3. /\ Add(cli, op) /\ proc' = [proc EXCEPT !.todo = Tail(@)]
        /\ UNCHANGED <<backend, ctx, file, shown>>
    BY <1>2, <1>4, <2>2 DEF ImportAdd
  <2>4. BatchInv'
    BY <2>3, AddInv, ProcessIsUser DEF CommandsInv
  <2>5. operations' = Append(operations, op) /\ UNCHANGED <<ex, committed>>
    BY <2>3 DEF Add
  <2>6. \A done \in Seq(ItemsOf(kind)) : operations = Meant(kind, done) =>
          operations' = Meant(kind, Append(done, x))
    BY <2>1, <2>2, <2>5, MeantAppend
  <2>. QED BY <1>1, <1>2, <2>3, <2>4, <2>5, <2>6, ReadInv
<1>5. CASE ImportSkip
  <2>1. /\ kind = "importSkip" /\ ParseImportEntry(x) = NoKey
        /\ proc' = [proc EXCEPT !.todo = Tail(@)]
        /\ UNCHANGED <<batchVars, backend, ctx, file, shown>>
    BY <1>1, <1>2, <1>5 DEF ImportSkip
  <2>2. BatchInv' /\ UNCHANGED <<operations, ex, committed>>
    BY <2>1 DEF CommandsInv, BatchInv, BatchTypeOK, DistinctVersions, batchVars
  <2>3. \A done \in Seq(ItemsOf(kind)) : operations = Meant(kind, done) =>
          operations' = Meant(kind, Append(done, x))
    BY <2>1, <2>2, MeantAppend
  <2>. QED BY <1>1, <1>2, <2>1, <2>2, <2>3, ReadInv
<1>. QED BY <1>3, <1>4, <1>5

\* Execute is called when everything is in the batch.
LEMMA RunExecuteInv ==
    ASSUME CommandsInv, RunExecute
    PROVE  CommandsInv'
<1>1. PICK kind \in BatchKinds : kind = proc.kind
  BY DEF RunExecute, Importing, BatchKinds
<1>2. /\ proc.todo = <<>> /\ ~proc.executed /\ StartExecute(cli)
      /\ proc' = [proc EXCEPT !.executed = TRUE] /\ UNCHANGED <<backend, ctx, file, shown>>
  BY DEF RunExecute
<1>3. BatchInv'
  BY <1>2, StartExecuteInv, ProcessIsUser DEF CommandsInv
<1>4. operations = proc.all
  <2>1. PICK done \in Seq(ItemsOf(kind)) :
          operations = Meant(kind, done) /\ proc.all = Meant(kind, done \o proc.todo)
    BY <1>1, <1>2 DEF CommandsInv, FileCommandRight
  <2>2. done \o <<>> = done
    OBVIOUS
  <2>. QED BY <1>2, <2>1, <2>2
<1>5. /\ ex'[cli].pc = "begin" /\ ex'[cli].all = operations /\ operations' = operations
      /\ operations # <<>> /\ \A u \in Users : u # cli => ex'[u] = ex[u]
  <2>1. ex \in [Users -> ExecuteState]
    BY DEF CommandsInv, BatchInv, BatchTypeOK
  <2>. QED BY <1>2, <2>1, ProcessIsUser DEF StartExecute, Idle
<1>6. /\ proc' \in ProcessState /\ proc'.kind = kind /\ proc'.todo = <<>> /\ proc'.all = proc.all
      /\ proc'.executed
  BY <1>1, <1>2 DEF CommandsInv, CommandsTypeOK, ProcessState
<1>7. CommandsTypeOK' /\ FileRight(file')
  BY <1>2, <1>6 DEF CommandsInv, CommandsTypeOK
<1>8. kind # "repl"
  BY DEF BatchKinds
<1>9. PromptRight'
  BY <1>6, <1>8 DEF PromptRight, Prompt
<1>10. FileCommandRight'
  BY <1>1, <1>4, <1>5, <1>6, <1>8 DEF FileCommandRight, CommandsInv
<1>11. AloneRight'
  BY <1>5 DEF AloneRight
<1>. QED BY <1>3, <1>7, <1>9, <1>10, <1>11 DEF CommandsInv

\* What a step of Execute does to the calls: it goes on with the operations it
\* has, on the version it began on, or it is over.
LEMMA ExecuteMoves ==
    ASSUME BatchInv, NEW u \in Users, Execute(u)
    PROVE  /\ \A w \in Users : w # u => ex'[w] = ex[w]
           /\ ex'[u].pc # "begin"
           /\ ex'[u].pc # "idle" =>
                ex[u].pc # "idle" /\ ex'[u].all = ex[u].all /\ operations' = operations
           /\ ex'[u].pc = "apply" =>
                /\ ex[u].pc \in {"begin", "apply"} /\ committed' = committed
                /\ (ex'[u].base = Latest \/ (ex[u].pc = "apply" /\ ex'[u].base = ex[u].base))
<1>1. ex \in [Users -> ExecuteState] /\ ex[u] \in ExecuteState
  BY DEF BatchInv, BatchTypeOK
<1>2. CASE BeginVersion(u)
  <2>1. /\ ex' = [ex EXCEPT ![u] = [ex[u] EXCEPT !.pc = "apply", !.version = nextVersion,
                                      !.base = Latest, !.pending = committed[Latest]]]
        /\ ex[u].pc = "begin" /\ UNCHANGED <<operations, committed>>
    BY <1>1, <1>2 DEF BeginVersion
  <2>2. /\ ex'[u] = [ex[u] EXCEPT !.pc = "apply", !.version = nextVersion,
                                   !.base = Latest, !.pending = committed[Latest]]
        /\ \A w \in Users : w # u => ex'[w] = ex[w]
    BY <1>1, <2>1
  <2>3. ex'[u].pc = "apply" /\ ex'[u].all = ex[u].all /\ ex'[u].base = Latest
    BY <1>1, <2>2 DEF ExecuteState
  <2>. QED BY <2>1, <2>2, <2>3
<1>3. CASE ApplyOp(u)
  <2>1. PICK pend, rest :
          /\ ex' = [ex EXCEPT ![u] = [ex[u] EXCEPT !.pending = pend, !.ops = rest]]
          /\ ex[u].pc = "apply" /\ UNCHANGED <<operations, committed>>
    BY <1>1, <1>3 DEF ApplyOp, ExecuteState
  <2>2. /\ ex'[u] = [ex[u] EXCEPT !.pending = pend, !.ops = rest]
        /\ \A w \in Users : w # u => ex'[w] = ex[w]
    BY <1>1, <2>1
  <2>. QED BY <1>1, <2>1, <2>2 DEF ExecuteState
<1>4. CASE CommitVersion(u)
  <2>1. /\ ex' = [ex EXCEPT ![u] = [ex[u] EXCEPT !.pc = "clear"]]
        /\ ex[u].pc = "apply" /\ UNCHANGED operations
    BY <1>1, <1>4 DEF CommitVersion
  <2>2. /\ ex'[u] = [ex[u] EXCEPT !.pc = "clear"] /\ \A w \in Users : w # u => ex'[w] = ex[w]
    BY <1>1, <2>1
  <2>. QED BY <1>1, <2>1, <2>2 DEF ExecuteState
<1>5. CASE BeginFails(u) \/ ApplyFails(u) \/ CommitFails(u) \/ ClearExecuted(u)
  <2>1. ex' = [ex EXCEPT ![u] = Idle]
    BY <1>5 DEF BeginFails, ApplyFails, CommitFails, ClearExecuted, Fail
  <2>2. ex'[u].pc = "idle" /\ \A w \in Users : w # u => ex'[w] = ex[w]
    BY <1>1, <2>1, IdleRight
  <2>. QED BY <2>2
<1>. QED BY <1>2, <1>3, <1>4, <1>5 DEF Execute

\* A step of Execute keeps a goroutine alone with its batch.
LEMMA ExecuteAlone ==
    ASSUME BatchInv, AloneRight, NEW u \in Users, Execute(u)
    PROVE  AloneRight'
<1>. SUFFICES ASSUME Users = {cli}, ex'[cli].pc # "idle"
              PROVE  operations' = ex'[cli].all /\ operations' # <<>>
  BY DEF AloneRight
<1>1. u = cli
  OBVIOUS
<1>. QED BY <1>1, ExecuteMoves DEF AloneRight

\* The steps of Execute in a command.
LEMMA ExecuteStepInv ==
    ASSUME CommandsInv, ExecuteStep
    PROVE  CommandsInv'
<1>1. proc.executed /\ Execute(cli) /\ UNCHANGED <<backend, proc, ctx, file, shown>>
  BY DEF ExecuteStep, cmdVars
<1>2. BatchInv'
  BY <1>1, ExecuteInv, ProcessIsUser DEF CommandsInv
<1>3. CommandsTypeOK' /\ FileRight(file')
  BY <1>1 DEF CommandsInv, CommandsTypeOK
<1>4. proc.kind \in BatchKinds /\ proc.kind # "repl"
  BY <1>1 DEF CommandsInv, FileCommandRight, BatchKinds
<1>5. PromptRight'
  BY <1>1, <1>4 DEF PromptRight, Prompt
<1>6. AloneRight'
  BY <1>1, ExecuteAlone, ProcessIsUser DEF CommandsInv
<1>7. FileCommandRight'
  <2>1. /\ \A w \in Users : w # cli => ex'[w] = ex[w]
        /\ ex'[cli].pc # "begin"
        /\ ex'[cli].pc # "idle" =>
             ex[cli].pc # "idle" /\ ex'[cli].all = ex[cli].all /\ operations' = operations
        /\ ex'[cli].pc = "apply" =>
             /\ ex[cli].pc \in {"begin", "apply"} /\ committed' = committed
             /\ (ex'[cli].base = Latest \/ (ex[cli].pc = "apply" /\ ex'[cli].base = ex[cli].base))
    BY <1>1, ExecuteMoves, ProcessIsUser DEF CommandsInv
  <2>2. ex'[cli].pc = "apply" =>
          operations' = proc.all /\ ex'[cli].all = proc.all /\ ex'[cli].base = Latest /\ Latest' = Latest
    BY <1>4, <2>1 DEF CommandsInv, FileCommandRight, Latest
  <2>. QED BY <1>1, <1>4, <2>1, <2>2 DEF CommandsInv, FileCommandRight
<1>. QED BY <1>2, <1>3, <1>5, <1>6, <1>7 DEF CommandsInv

\* A process that is no command on a file.
OtherKinds == {"none", "library", "repl"}

\* Another process is started.
LEMMA StartOtherInv ==
    ASSUME CommandsInv, NEW kind \in OtherKinds, Start(Process(kind, <<>>, <<>>)),
           UNCHANGED <<backend, file, shown>>,
           (ctx' = ctx /\ kind # "repl") \/ ctx' = Newest(Opened)
    PROVE  CommandsInv'
<1>1. /\ proc' = Process(kind, <<>>, <<>>) /\ operations' = <<>> /\ committed' = Opened
  BY DEF Start
<1>2. BatchInv' /\ AloneRight'
  BY FreshInv DEF CommandsInv, Start
<1>3. proc' \in ProcessState /\ proc'.kind = kind /\ proc'.todo = <<>> /\ ~proc'.executed
  <2>1. <<>> \in Seq(FileOperation) /\ <<>> \in Seq(FileOp) /\ <<>> \in Seq(Lines)
    OBVIOUS
  <2>2. NotAsked \in Nat
    BY BatchBounds DEF NotAsked
  <2>. QED BY <1>1, <2>1, <2>2 DEF Process, NoProcess, ProcessState, OtherKinds
<1>4. Newest(Opened) \in Nat
  BY OpenedRight DEF CommandsInv
<1>5. CommandsTypeOK' /\ FileRight(file')
  BY <1>3, <1>4 DEF CommandsInv, CommandsTypeOK
<1>6. PromptRight'
  BY <1>1, <1>3 DEF PromptRight, Prompt, Latest
<1>7. FileCommandRight'
  <2>1. <<>> \in Seq(FileEntry) /\ kind \notin BatchKinds
    BY DEF OtherKinds, BatchKinds
  <2>. QED BY <1>3, <2>1 DEF FileCommandRight
<1>. QED BY <1>2, <1>5, <1>6, <1>7 DEF CommandsInv

\* A program that uses the batch itself.
LEMMA LibraryStepInv ==
    ASSUME CommandsInv, LibraryStep
    PROVE  CommandsInv'
<1>1. proc.kind = "library" /\ BatchNext /\ UNCHANGED <<backend, proc, ctx, file, shown>>
  BY DEF LibraryStep, cmdVars
<1>2. BatchInv'
  BY <1>1, BatchNextInv DEF CommandsInv
<1>3. CommandsTypeOK' /\ FileRight(file')
  BY <1>1 DEF CommandsInv, CommandsTypeOK
<1>4. PromptRight'
  BY <1>1 DEF PromptRight, Prompt
<1>5. FileCommandRight'
  BY <1>1 DEF FileCommandRight, BatchKinds, CommandsInv
<1>6. AloneRight'
  <2>1. PICK u \in Users :
          \/ \E k \in Keys, v \in Values : BatchPut(u, k, v)
          \/ \E k \in Keys : BatchDelete(u, k)
          \/ Clear(u)
          \/ StartExecute(u)
          \/ Execute(u)
    BY <1>1 DEF BatchNext
  <2>2. CASE ex[u].pc = "idle" /\ ex' = ex
    BY <2>2 DEF AloneRight
  <2>3. CASE StartExecute(u)
    <3>1. ex \in [Users -> ExecuteState]
      BY DEF CommandsInv, BatchInv, BatchTypeOK
    <3>2. ex'[u].all = operations /\ operations # <<>> /\ operations' = operations
      BY <2>3, <3>1 DEF StartExecute, Idle
    <3>. QED BY <3>2 DEF AloneRight
  <2>4. CASE Execute(u)
    BY <2>4, ExecuteAlone DEF CommandsInv
  <2>. QED BY <2>1, <2>2, <2>3, <2>4 DEF BatchPut, BatchDelete, Add, Clear
<1>. QED BY <1>2, <1>3, <1>4, <1>5, <1>6 DEF CommandsInv

\* The process ends or is killed.
LEMMA ExitInv ==
    ASSUME CommandsInv, Exit
    PROVE  CommandsInv'
<1>1. proc' = NoProcess /\ ctx' = 0 /\ shown' = NothingShown /\ UNCHANGED <<backend, file>>
  BY DEF Exit
<1>2. BatchInv' /\ AloneRight'
  BY FreshInv DEF CommandsInv, Exit
<1>3. CommandsTypeOK' /\ FileRight(file')
  BY <1>1, NoProcessType DEF CommandsInv, CommandsTypeOK
<1>4. PromptRight' /\ FileCommandRight'
  BY <1>1, NoProcessType DEF PromptRight, Prompt, FileCommandRight, BatchKinds
<1>. QED BY <1>2, <1>3, <1>4 DEF CommandsInv

\* What is exported: the entries have the values one version gives their keys.
LEMMA ExportedRight ==
    ASSUME NEW c \in Contents, NEW names \in Seq(Keys), NEW hex \in BOOLEAN,
           NEW format \in Formats, NEW includeHex \in BOOLEAN,
           \A i \in DOMAIN names : ParseKey(names[i], hex) # NoKey
    PROVE  /\ Exported(c, names, hex, format, includeHex) \in Seq(FileEntry)
           /\ FileRight(Exported(c, names, hex, format, includeHex))
<1>1. PICK I \in SUBSET DOMAIN names :
        I = {i \in DOMAIN names : c[ParseKey(names[i], hex)] # NoValue}
  OBVIOUS
<1>2. PICK found \in Seq(Keys) :
        /\ found = At(names, I)
        /\ \A j \in DOMAIN found : \E i \in I : found[j] = names[i]
  <2>1. /\ At(names, I) \in Seq(Keys) /\ Len(At(names, I)) = Cardinality(I)
        /\ \A j \in 1 .. Cardinality(I) : Position(I, j) \in I /\ At(names, I)[j] = names[Position(I, j)]
    BY AtElements
  <2>2. DOMAIN At(names, I) = 1 .. Cardinality(I)
    BY <2>1
  <2>. QED BY <2>1, <2>2
<1>3. ASSUME NEW j \in DOMAIN found
      PROVE  /\ ParseKey(found[j], hex) \in Keys
             /\ \/ ParseKey(found[j], hex) = KeyHash(found[j])
                \/ found[j] \in DOMAIN HexOf /\ ParseKey(found[j], hex) = HexOf[found[j]]
             /\ c[ParseKey(found[j], hex)] \in Values /\ found[j] \in Keys
  <2>1. ParseKey(found[j], hex) # NoKey /\ c[ParseKey(found[j], hex)] # NoValue /\ found[j] \in Keys
    BY <1>1, <1>2
  <2>2. /\ ParseKey(found[j], hex) \in Keys
        /\ \/ ParseKey(found[j], hex) = KeyHash(found[j])
           \/ found[j] \in DOMAIN HexOf /\ ParseKey(found[j], hex) = HexOf[found[j]]
    BY <2>1, ParsedKey
  <2>3. c[ParseKey(found[j], hex)] \in Values
    BY <2>1, <2>2 DEF Contents
  <2>. QED BY <2>1, <2>2, <2>3
<1>. DEFINE entry(j) == ExportEntry(found[j], ParseKey(found[j], hex), c[ParseKey(found[j], hex)],
                                     format, includeHex)
<1>4. Exported(c, names, hex, format, includeHex) = [j \in DOMAIN found |-> entry(j)]
  BY <1>1, <1>2 DEF Exported
<1>5. \A j \in DOMAIN found :
        /\ entry(j) \in FileEntry /\ entry(j).name = found[j] /\ entry(j).from = ParseKey(found[j], hex)
  <2>1. TextOf[format] \in [Values -> Values]
    BY TextIsValue
  <2>. QED BY <1>3, <2>1 DEF FileEntry, ExportEntry
<1>6. PICK f : f = Exported(c, names, hex, format, includeHex)
  OBVIOUS
<1>7. DOMAIN f = DOMAIN found /\ \A j \in DOMAIN found : f[j] = entry(j)
  BY <1>4, <1>6
<1>8. f \in Seq(FileEntry)
  <2>1. [j \in DOMAIN found |-> entry(j)] \in Seq(FileEntry)
    <3>. HIDE DEF entry
    <3>1. DOMAIN found = 1 .. Len(found) /\ Len(found) \in Nat
      BY <1>2
    <3>. QED BY <1>5, <3>1
  <2>. QED BY <1>4, <1>6, <2>1
<1>9. FileRight(f)
  <2>1. ASSUME NEW j \in DOMAIN f
        PROVE  /\ f[j] = ExportEntry(f[j].name, f[j].from, c[f[j].from], format, includeHex)
               /\ \/ f[j].from = KeyHash(f[j].name)
                  \/ f[j].name \in DOMAIN HexOf /\ f[j].from = HexOf[f[j].name]
    <3>1. f[j] = entry(j) /\ f[j].name = found[j] /\ f[j].from = ParseKey(found[j], hex) /\ j \in DOMAIN found
      BY <1>5, <1>7
    <3>. QED BY <1>3, <3>1
  <2>. QED BY <2>1 DEF FileRight
<1>. QED BY <1>6, <1>8, <1>9

\* export-keys.
LEMMA RunExportKeysInv ==
    ASSUME CommandsInv, NEW v, NEW names \in KeyLists, NEW hex \in BOOLEAN,
           NEW format \in Formats, NEW includeHex \in BOOLEAN, RunExportKeys(v, names, hex, format, includeHex)
    PROVE  CommandsInv'
<1>1. /\ v \in DOMAIN Opened /\ file' = Exported(Opened[v], names, hex, format, includeHex)
      /\ \A i \in DOMAIN names : ParseKey(names[i], hex) # NoKey
      /\ UNCHANGED <<batchVars, backend, proc, ctx, shown>>
  BY DEF RunExportKeys
<1>2. names \in Seq(Keys) /\ Opened[v] \in Contents
  BY <1>1, NamesAreKeys, OpenedRight DEF CommandsInv, VersionsRight
<1>3. file' \in Seq(FileEntry) /\ FileRight(file')
  BY <1>1, <1>2, ExportedRight
<1>4. UNCHANGED <<operations, keyOps, ex, committed, parent, nextVersion>>
  BY <1>1 DEF batchVars
<1>5. BatchInv'
  BY <1>4 DEF CommandsInv, BatchInv, BatchTypeOK, DistinctVersions
<1>6. CommandsTypeOK'
  BY <1>1, <1>3 DEF CommandsInv, CommandsTypeOK
<1>7. FileCommandRight' /\ PromptRight' /\ AloneRight'
  BY <1>1, <1>4 DEF CommandsInv, FileCommandRight, PromptRight, AloneRight, Prompt, Latest
<1>. QED BY <1>3, <1>5, <1>6, <1>7 DEF CommandsInv

\* The number of the latest version, after a step.
LEMMA NewestIsNat ==
    ASSUME BatchInv'
    PROVE  Newest(committed') \in Nat
<1>1. nextVersion' \in Nat /\ VersionsRight(committed', parent', nextVersion')
  BY DEF BatchInv, BatchTypeOK
<1>2. Newest(committed') \in DOMAIN committed'
  BY <1>1, NewestExists
<1>. QED BY <1>1, <1>2 DEF VersionsRight

\* The rest of a sequence, and when nothing is left.
LEMMA RestOfSequence ==
    ASSUME NEW S, NEW s \in Seq(S), s # <<>>
    PROVE  Tail(s) \in Seq(S) /\ (Tail(s) = <<>> => Len(s) = 1)
<1>1. Tail(s) \in Seq(S) /\ Len(Tail(s)) = Len(s) - 1 /\ Len(s) \in Nat
  OBVIOUS
<1>2. PICK t \in Seq(S) : t = Tail(s)
  BY <1>1
<1>3. Len(t) = Len(s) - 1 /\ Len(s) \in Nat
  BY <1>1, <1>2
<1>4. t = <<>> => Len(t) = 0
  OBVIOUS
<1>5. t = <<>> => Len(s) = 1
  BY <1>3, <1>4
<1>. QED BY <1>2, <1>5

\* A session of the REPL.
ReplProcess(p) ==
    p \in ProcessState /\ p.kind = "repl" /\ p.todo \in Seq(FileEntry) /\ ~p.executed

\* What a step of the REPL makes of its session.
LEMMA ReplProcessNext ==
    ASSUME CommandsInv, proc.kind = "repl",
           NEW todo \in Seq(FileEntry), NEW lines \in Seq(Lines), NEW asked \in Nat,
           proc' = [proc EXCEPT !.todo = todo, !.lines = lines, !.asked = asked]
    PROVE  ReplProcess(proc') /\ proc'.todo = todo /\ proc'.lines = lines
<1>1. proc \in ProcessState /\ ~proc.executed
  BY DEF CommandsInv, CommandsTypeOK, FileCommandRight, BatchKinds
<1>. QED BY <1>1 DEF ProcessState, ReplProcess

\* The state after a step of the REPL: it is a REPL still, its own variables
\* have their types, and the version is the latest one if the prompt is back.
LEMMA ReplInv ==
    ASSUME CommandsInv, proc.kind = "repl", BatchInv', UNCHANGED <<backend, ex, operations>>,
           file' \in Seq(FileEntry), FileRight(file'), ctx' \in Nat,
           shown' \in [version : Nat, value : Values \cup {NoValue}, latest : Values \cup {NoValue}],
           ReplProcess(proc'), Prompt' => ctx' = Newest(committed')
    PROVE  CommandsInv'
<1>2. proc' \in ProcessState /\ proc'.kind = "repl" /\ proc'.todo \in Seq(FileEntry) /\ ~proc'.executed
  BY DEF ReplProcess
<1>3. CommandsTypeOK'
  BY <1>2 DEF CommandsInv, CommandsTypeOK
<1>4. FileCommandRight'
  BY <1>2 DEF FileCommandRight, BatchKinds
<1>5. PromptRight'
  BY DEF PromptRight, Latest
<1>6. AloneRight'
  BY DEF CommandsInv, AloneRight
<1>. QED BY <1>3, <1>4, <1>5, <1>6 DEF CommandsInv

\* Every line of the REPL, without what becomes of its version.
LEMMA ReplLineEffect ==
    ASSUME CommandsInv, NEW l \in Lines, ReplLine(l) \/ ReplVersion(l)
    PROVE  /\ BatchInv' /\ UNCHANGED <<ex, operations>>
           /\ file' \in Seq(FileEntry) /\ FileRight(file')
           /\ shown' \in [version : Nat, value : Values \cup {NoValue}, latest : Values \cup {NoValue}]
<1>1. /\ BatchInv /\ file \in Seq(FileEntry) /\ FileRight(file) /\ ctx \in Nat
      /\ shown \in [version : Nat, value : Values \cup {NoValue}, latest : Values \cup {NoValue}]
  BY DEF CommandsInv, CommandsTypeOK
<1>2. /\ VersionsRight(committed, parent, nextVersion) /\ nextVersion \in Nat
      /\ \A v \in DOMAIN committed : committed[v] \in Contents
      /\ Latest \in DOMAIN committed
  BY <1>1, NewestExists DEF BatchInv, BatchTypeOK, VersionsRight, Latest
<1>3. ASSUME UNCHANGED batchVars PROVE BatchInv' /\ UNCHANGED <<ex, operations>>
  BY <1>1, <1>3 DEF BatchInv, BatchTypeOK, DistinctVersions, batchVars
<1>4. CASE ReplPut(l)
  <2>1. l.name \in Keys /\ l.value \in Values
    BY <1>4 DEF ReplPut, Lines
  <2>2. /\ NewVersion(KeyHash(l.name), l.value) /\ KeyHash(l.name) \in Keys
        /\ UNCHANGED <<file, shown>>
    BY <1>4, <2>1 DEF ReplPut, KeyHash
  <2>3. BatchInv' /\ UNCHANGED <<ex, operations>>
    BY <1>1, <2>1, <2>2, NewVersionInv DEF NewVersion
  <2>. QED BY <1>1, <2>2, <2>3
<1>5. CASE ReplDelete(l)
  <2>1. l.name \in Keys
    BY <1>5 DEF ReplDelete, Lines
  <2>2. /\ NewVersion(KeyHash(l.name), NoValue) /\ KeyHash(l.name) \in Keys
        /\ UNCHANGED <<file, shown>>
    BY <1>5, <2>1 DEF ReplDelete, KeyHash
  <2>3. BatchInv' /\ UNCHANGED <<ex, operations>>
    BY <1>1, <2>2, NewVersionInv DEF NewVersion
  <2>. QED BY <1>1, <2>2, <2>3
<1>6. CASE ReplGet(l)
  <2>1. l.name \in Keys /\ KeyHash(l.name) \in Keys
    BY <1>6 DEF ReplGet, Lines, KeyHash
  <2>2. /\ ctx \in DOMAIN committed /\ UNCHANGED <<batchVars, file>>
        /\ shown' = [version |-> ctx, value |-> committed[ctx][KeyHash(l.name)],
                     latest |-> committed[Latest][KeyHash(l.name)]]
    BY <1>6 DEF ReplGet
  <2>3. /\ committed[ctx][KeyHash(l.name)] \in Values \cup {NoValue}
        /\ committed[Latest][KeyHash(l.name)] \in Values \cup {NoValue}
    BY <1>2, <2>1, <2>2 DEF Contents
  <2>. QED BY <1>1, <1>3, <2>2, <2>3
<1>7. CASE ReplExport(l)
  <2>1. l.names \in Seq(Keys)
    BY <1>7, NamesAreKeys DEF ReplExport, Lines
  <2>2. /\ ctx \in DOMAIN committed /\ file' = Exported(committed[ctx], l.names, FALSE, "json", FALSE)
        /\ UNCHANGED <<batchVars, shown>>
    BY <1>7 DEF ReplExport
  <2>3. \A i \in DOMAIN l.names : ParseKey(l.names[i], FALSE) # NoKey
    <3>1. \A i \in DOMAIN l.names : l.names[i] \in Keys
      BY <2>1
    <3>. QED BY <3>1, FilesAreParsed DEF ParseKey, KeyHash
  <2>4. committed[ctx] \in Contents
    BY <1>2, <2>2
  <2>5. file' \in Seq(FileEntry) /\ FileRight(file')
    BY <2>1, <2>2, <2>3, <2>4, ExportedRight DEF Formats
  <2>. QED BY <1>1, <1>3, <2>2, <2>5
<1>8. CASE ReplVersion(l)
  BY <1>1, <1>3, <1>8 DEF ReplVersion
<1>. QED BY <1>4, <1>5, <1>6, <1>7, <1>8 DEF ReplLine

\* Lines typed at the prompt.
LEMMA TypeLineInv ==
    ASSUME CommandsInv, NEW l \in Lines, TypeLine(l)
    PROVE  CommandsInv'
<1>1. /\ proc.kind = "repl" /\ proc.lines = <<>> /\ proc.todo = <<>> /\ ctx' = Newest(committed')
      /\ ReplLine(l) \/ ReplVersion(l)
      /\ proc' = [proc EXCEPT !.asked = Asked(l)] /\ UNCHANGED backend
  BY DEF TypeLine, Prompt, Refresh
<1>2. /\ BatchInv' /\ UNCHANGED <<ex, operations>>
      /\ file' \in Seq(FileEntry) /\ FileRight(file')
      /\ shown' \in [version : Nat, value : Values \cup {NoValue}, latest : Values \cup {NoValue}]
  BY <1>1, ReplLineEffect
<1>3. ctx' \in Nat
  BY <1>1, <1>2, NewestIsNat
<1>4. PICK asked \in Nat : asked = Asked(l)
  <2>1. l.cmd = "version" => l.version \in Nat
    BY BatchBounds DEF Lines
  <2>2. proc.asked \in Nat /\ NotAsked \in Nat
    BY BatchBounds DEF CommandsInv, CommandsTypeOK, ProcessState, NotAsked
  <2>. QED BY <2>1, <2>2 DEF Asked
<1>5. PICK todo \in Seq(FileEntry), lines \in Seq(Lines) : todo = proc.todo /\ lines = proc.lines
  <2>1. <<>> \in Seq(FileEntry) /\ <<>> \in Seq(Lines)
    OBVIOUS
  <2>. QED BY <1>1, <2>1
<1>6. proc' = [proc EXCEPT !.todo = todo, !.lines = lines, !.asked = asked] /\ proc.kind = "repl"
  BY <1>1, <1>4, <1>5 DEF CommandsInv, CommandsTypeOK, ProcessState
<1>7. ReplProcess(proc')
  BY <1>6, ReplProcessNext
<1>. QED BY <1>1, <1>2, <1>3, <1>7, ReplInv

\* The next line of a script.
LEMMA ScriptLineInv ==
    ASSUME CommandsInv, ScriptLine \/ ScriptLineFails
    PROVE  CommandsInv'
<1>1. /\ proc.kind = "repl" /\ proc.todo = <<>> /\ proc.lines # <<>>
      /\ proc' = [proc EXCEPT !.lines = Tail(@)] /\ UNCHANGED backend
  BY DEF ScriptLine, ScriptLineFails, InScript, NextLine
<1>2. PICK lines \in Seq(Lines) : lines = proc.lines /\ lines # <<>>
  BY <1>1 DEF CommandsInv, CommandsTypeOK, ProcessState
<1>3. PICK rest \in Seq(Lines) : rest = Tail(lines) /\ (rest = <<>> => Len(lines) = 1)
  <2>1. Tail(lines) \in Seq(Lines) /\ (Tail(lines) = <<>> => Len(lines) = 1)
    BY <1>2, RestOfSequence
  <2>. QED BY <2>1
<1>4. PICK l \in Lines : l = Head(lines)
  BY <1>2
<1>5. /\ BatchInv' /\ UNCHANGED <<ex, operations>>
      /\ file' \in Seq(FileEntry) /\ FileRight(file')
      /\ shown' \in [version : Nat, value : Values \cup {NoValue}, latest : Values \cup {NoValue}]
  <2>1. CASE ScriptLine
    <3>1. ReplLine(l) \/ ReplVersion(l)
      BY <1>2, <1>4, <2>1 DEF ScriptLine
    <3>. QED BY <3>1, ReplLineEffect
  <2>2. CASE ScriptLineFails
    <3>1. UNCHANGED <<operations, keyOps, ex, committed, parent, nextVersion, file, shown>>
      BY <2>2 DEF ScriptLineFails, batchVars
    <3>. QED BY <3>1 DEF CommandsInv, CommandsTypeOK, BatchInv, BatchTypeOK, DistinctVersions
  <2>. QED BY <2>1, <2>2
<1>6. Newest(committed') \in Nat
  BY <1>5, NewestIsNat
<1>7. /\ Len(lines) = 1 => ctx' = Newest(committed')
      /\ ctx' = Newest(committed') \/ ctx' = ctx \/ (l.cmd = "version" /\ ctx' = l.version)
  <2>1. CASE ScriptLine
    BY <1>2, <1>4, <2>1 DEF ScriptLine, Refresh, ReplVersion
  <2>2. CASE ScriptLineFails
    BY <1>2, <2>2 DEF ScriptLineFails, Refresh
  <2>. QED BY <2>1, <2>2
<1>8. ctx' \in Nat
  <2>1. l.cmd = "version" => l.version \in Nat
    BY BatchBounds DEF Lines
  <2>. QED BY <1>6, <1>7, <2>1 DEF CommandsInv, CommandsTypeOK
<1>9. PICK todo \in Seq(FileEntry), asked \in Nat : todo = proc.todo /\ asked = proc.asked
  BY <1>1 DEF CommandsInv, CommandsTypeOK, ProcessState
<1>10. proc' = [proc EXCEPT !.todo = todo, !.lines = rest, !.asked = asked] /\ proc.kind = "repl"
  BY <1>1, <1>2, <1>3, <1>9 DEF CommandsInv, CommandsTypeOK, ProcessState
<1>11. ReplProcess(proc') /\ proc'.lines = rest
  BY <1>10, ReplProcessNext
<1>12. Prompt' => ctx' = Newest(committed')
  BY <1>3, <1>7, <1>11 DEF Prompt
<1>. QED BY <1>1, <1>5, <1>8, <1>11, <1>12, ReplInv

\* A script or an import is started at the prompt.
LEMMA StartFromPromptInv ==
    ASSUME CommandsInv,
           \/ \E lines \in Scripts : StartScript(lines)
           \/ \E entries \in (Imports \cup {file}) \ {<<>>} : StartReplImport(entries)
    PROVE  CommandsInv'
<1>1. /\ proc.kind = "repl" /\ proc.lines = <<>> /\ proc.todo = <<>> /\ ctx = Latest
      /\ UNCHANGED <<batchVars, backend, ctx, file, shown>>
  BY DEF StartScript, StartReplImport, Prompt, CommandsInv, PromptRight
<1>2. UNCHANGED <<operations, keyOps, ex, committed, parent, nextVersion>>
  BY <1>1 DEF batchVars
<1>3. BatchInv'
  BY <1>2 DEF CommandsInv, BatchInv, BatchTypeOK, DistinctVersions
<1>4. PICK todo \in Seq(FileEntry), lines \in Seq(Lines) :
        proc' = [proc EXCEPT !.todo = todo, !.lines = lines, !.asked = NotAsked]
  <2>1. CASE \E lines \in Scripts : StartScript(lines)
    <3>1. PICK lines \in Scripts : proc' = [proc EXCEPT !.lines = lines, !.asked = NotAsked]
      BY <2>1 DEF StartScript
    <3>2. lines \in Seq(Lines) /\ proc.todo \in Seq(FileEntry)
      BY <1>1, <3>1, FilesAreParsed
    <3>3. proc' = [proc EXCEPT !.todo = proc.todo, !.lines = lines, !.asked = NotAsked]
      BY <3>1 DEF CommandsInv, CommandsTypeOK, ProcessState
    <3>. QED BY <3>2, <3>3
  <2>2. CASE \E entries \in (Imports \cup {file}) \ {<<>>} : StartReplImport(entries)
    <3>1. PICK entries \in Imports \cup {file} : proc' = [proc EXCEPT !.todo = entries, !.asked = NotAsked]
      BY <2>2 DEF StartReplImport
    <3>2. entries \in Seq(FileEntry) /\ proc.lines \in Seq(Lines)
      BY <1>1, <3>1, FilesAreParsed DEF CommandsInv, CommandsTypeOK
    <3>3. proc' = [proc EXCEPT !.todo = entries, !.lines = proc.lines, !.asked = NotAsked]
      BY <3>1 DEF CommandsInv, CommandsTypeOK, ProcessState
    <3>. QED BY <3>2, <3>3
  <2>. QED BY <2>1, <2>2
<1>5. ctx' = Newest(committed')
  BY <1>1, <1>2 DEF Latest
<1>6. /\ file' \in Seq(FileEntry) /\ FileRight(file') /\ ctx' \in Nat
      /\ shown' \in [version : Nat, value : Values \cup {NoValue}, latest : Values \cup {NoValue}]
  BY <1>1 DEF CommandsInv, CommandsTypeOK
<1>7. NotAsked \in Nat
  BY BatchBounds DEF NotAsked
<1>8. ReplProcess(proc')
  BY <1>1, <1>4, <1>7, ReplProcessNext
<1>. QED BY <1>1, <1>2, <1>3, <1>5, <1>6, <1>8, ReplInv

\* The next entry of an import in the REPL.
LEMMA ReplImportEntryInv ==
    ASSUME CommandsInv, ReplImportEntry
    PROVE  CommandsInv'
<1>1. /\ proc.kind = "repl" /\ proc.todo # <<>> /\ proc' = [proc EXCEPT !.todo = Tail(@)]
      /\ UNCHANGED <<backend, file, shown>>
      /\ Len(proc.todo) = 1 => ctx' = Newest(committed')
      /\ ctx' = Newest(committed') \/ ctx' = ctx
  BY DEF ReplImportEntry, Refresh
<1>2. PICK todo \in Seq(FileEntry) : todo = proc.todo /\ todo # <<>>
  BY <1>1 DEF CommandsInv, FileCommandRight
<1>3. PICK rest \in Seq(FileEntry) : rest = Tail(todo) /\ (rest = <<>> => Len(todo) = 1)
  <2>1. Tail(todo) \in Seq(FileEntry) /\ (Tail(todo) = <<>> => Len(todo) = 1)
    BY <1>2, RestOfSequence
  <2>. QED BY <2>1
<1>4. PICK e \in FileEntry : e = Head(todo)
  BY <1>2
<1>5. BatchInv' /\ UNCHANGED <<ex, operations>>
  <2>1. KeyHash(e.name) \in Keys /\ EntryValue(e) \in Values
    BY DEF FileEntry, KeyHash, EntryValue
  <2>2. CASE NewVersion(KeyHash(e.name), EntryValue(e))
    BY <2>1, <2>2, NewVersionInv DEF NewVersion, CommandsInv
  <2>3. CASE UNCHANGED batchVars
    BY <2>3 DEF CommandsInv, BatchInv, BatchTypeOK, DistinctVersions, batchVars
  <2>. QED BY <1>2, <1>4, <2>2, <2>3 DEF ReplImportEntry
<1>6. ctx' \in Nat
  <2>1. Newest(committed') \in Nat
    BY <1>5, NewestIsNat
  <2>. QED BY <1>1, <2>1 DEF CommandsInv, CommandsTypeOK
<1>7. PICK lines \in Seq(Lines), asked \in Nat :
        proc' = [proc EXCEPT !.todo = rest, !.lines = lines, !.asked = asked] /\ proc.kind = "repl"
  <2>1. PICK lines \in Seq(Lines), asked \in Nat : lines = proc.lines /\ asked = proc.asked
    BY DEF CommandsInv, CommandsTypeOK, ProcessState
  <2>2. proc' = [proc EXCEPT !.todo = rest, !.lines = lines, !.asked = asked] /\ proc.kind = "repl"
    BY <1>1, <1>2, <1>3, <2>1 DEF CommandsInv, CommandsTypeOK, ProcessState
  <2>. QED BY <2>2
<1>8. /\ file' \in Seq(FileEntry) /\ FileRight(file')
      /\ shown' \in [version : Nat, value : Values \cup {NoValue}, latest : Values \cup {NoValue}]
  BY <1>1 DEF CommandsInv, CommandsTypeOK
<1>9. ReplProcess(proc') /\ proc'.todo = rest
  BY <1>7, ReplProcessNext
<1>10. Prompt' => ctx' = Newest(committed')
  BY <1>1, <1>2, <1>3, <1>9 DEF Prompt
<1>. QED BY <1>1, <1>5, <1>6, <1>8, <1>9, <1>10, ReplInv

\* Every step of the commands keeps the invariant.
LEMMA CommandsNextInv ==
    ASSUME CommandsInv, [CommandsNext]_commandVars
    PROVE  CommandsInv'
<1>1. CASE UNCHANGED commandVars
  <2>1. /\ UNCHANGED <<operations, keyOps, ex, committed, parent, nextVersion>>
        /\ UNCHANGED <<backend, proc, ctx, file, shown>>
    BY <1>1 DEF commandVars, batchVars, cmdVars
  <2>2. BatchInv'
    BY <2>1 DEF CommandsInv, BatchInv, BatchTypeOK, DistinctVersions
  <2>. QED BY <2>1, <2>2 DEF CommandsInv, CommandsTypeOK, FileCommandRight, PromptRight, AloneRight,
                             Prompt, Latest
<1>2. ASSUME NEW n \in Keys, NEW hex \in BOOLEAN, NEW v \in Values, RunPut(n, hex, v)
      PROVE  CommandsInv'
  <2>1. ParseKey(n, hex) \in Keys
    BY <1>2, ParsedKey DEF RunPut
  <2>. QED BY <1>2, <2>1, RunPutInv DEF RunPut
<1>3. ASSUME NEW n \in Keys, NEW hex \in BOOLEAN, RunDelete(n, hex)
      PROVE  CommandsInv'
  <2>1. ParseKey(n, hex) \in Keys
    BY <1>3, ParsedKey DEF RunDelete
  <2>. QED BY <1>3, <2>1, RunPutInv DEF RunDelete
<1>4. CASE StartLibrary
  <2>1. "library" \in OtherKinds /\ "library" # "repl"
    BY DEF OtherKinds
  <2>. QED BY <1>4, <2>1, StartOtherInv DEF StartLibrary
<1>5. CASE StartREPL
  <2>1. "repl" \in OtherKinds
    BY DEF OtherKinds
  <2>. QED BY <1>5, <2>1, StartOtherInv DEF StartREPL
<1>. QED BY <1>1, <1>2, <1>3, <1>4, <1>5, RunFileInv, FileAddInv, RunExecuteInv, ExecuteStepInv,
             LibraryStepInv, RunExportKeysInv, TypeLineInv, ScriptLineInv, StartFromPromptInv,
             ReplImportEntryInv, ExitInv, Zenon DEF CommandsNext

-----------------------------------------------------------------------------
(* The properties.                                                         *)

\* Only the CommitVersion of its Execute commits anything for a command on a
\* file, and what it commits is the whole file applied to the latest version.
LEMMA FileCommits ==
    ASSUME CommandsInv, [CommandsNext]_commandVars, proc.kind \in BatchKinds, proc' = proc,
           committed' # committed
    PROVE  /\ operations = proc.all /\ proc.all \in Seq(Op) /\ committed[Latest] \in Contents
           /\ committed' = Assign(committed, ex[cli].version,
                                  LastWrites(committed[Latest], proc.all, DOMAIN proc.all))
<1>1. proc.kind \notin {"none", "library", "repl"} /\ proc # NoProcess
  BY NoProcessType DEF BatchKinds
<1>2. ExecuteStep
  <2>1. committed' # committed => ~UNCHANGED commandVars
    BY DEF commandVars, batchVars
  <2>2. ~BatchAdd /\ ~ImportAdd /\ ~ImportSkip /\ ~RunExecute
    BY DEF BatchAdd, ImportAdd, ImportSkip, RunExecute, Add, StartExecute, batchVars
  <2>3. ~StartLibrary /\ ~LibraryStep /\ ~StartREPL /\ ~Exit
    BY <1>1 DEF StartLibrary, LibraryStep, StartREPL, Start, Exit
  <2>4. /\ ~\E n \in Keys, hex \in BOOLEAN, v \in Values : RunPut(n, hex, v)
        /\ ~\E n \in Keys, hex \in BOOLEAN : RunDelete(n, hex)
        /\ ~\E ops \in BatchFiles : RunBatch(ops)
        /\ ~\E entries \in Imports \cup {file}, skip \in BOOLEAN : RunImport(entries, skip)
        /\ ~\E v \in 0..MaxVersion, names \in KeyLists, hex \in BOOLEAN,
               format \in Formats, includeHex \in BOOLEAN : RunExportKeys(v, names, hex, format, includeHex)
    BY <1>1 DEF RunPut, RunDelete, RunBatch, RunImport, Start, RunExportKeys
  <2>5. /\ ~\E l \in Lines : TypeLine(l)
        /\ ~\E lines \in Scripts : StartScript(lines)
        /\ ~ScriptLine /\ ~ScriptLineFails
        /\ ~\E entries \in (Imports \cup {file}) \ {<<>>} : StartReplImport(entries)
        /\ ~ReplImportEntry
    BY <1>1 DEF TypeLine, StartScript, ScriptLine, ScriptLineFails, StartReplImport, ReplImportEntry,
                Prompt, InScript
  <2>. QED BY <2>1, <2>2, <2>3, <2>4, <2>5 DEF CommandsNext
<1>3. CommitVersion(cli)
  BY <1>2 DEF ExecuteStep, Execute, BeginVersion, BeginFails, ApplyOp, ApplyFails, CommitFails,
              ClearExecuted, Fail
<1>4. PICK e \in ExecuteState :
        e = ex[cli] /\ e.pc = "apply" /\ e.ops = <<>> /\ ExecRight(e, committed, parent, nextVersion)
  BY <1>3, ProcessIsUser DEF CommitVersion, CommandsInv, BatchInv, BatchTypeOK
<1>5. operations = proc.all /\ e.all = proc.all /\ e.base = Latest /\ proc.all \in Seq(Op)
  BY <1>4 DEF CommandsInv, FileCommandRight, BatchInv, BatchTypeOK
<1>6. e.base \in DOMAIN committed /\ e.pending = LastWrites(committed[e.base], e.all, DOMAIN e.all)
  BY <1>4, AllApplied
<1>7. committed[Latest] \in Contents
  BY <1>5, <1>6 DEF CommandsInv, BatchInv, VersionsRight
<1>8. committed' = Assign(committed, e.version, e.pending)
  BY <1>3, <1>4 DEF CommitVersion
<1>. QED BY <1>4, <1>5, <1>6, <1>7, <1>8

\* batch and import are all or nothing, in every step.
LEMMA AtomicStep ==
    ASSUME CommandsInv, [CommandsNext]_commandVars, Importing \/ proc.kind = "batch",
           proc' = proc, committed' # committed
    PROVE  /\ operations = proc.all
           /\ committed' = Assign(committed, ex[cli].version, Effect(committed[Latest], proc.all))
<1>1. proc.kind \in BatchKinds
  BY DEF Importing, BatchKinds
<1>2. /\ operations = proc.all /\ proc.all \in Seq(Op) /\ committed[Latest] \in Contents
      /\ committed' = Assign(committed, ex[cli].version,
                             LastWrites(committed[Latest], proc.all, DOMAIN proc.all))
  BY <1>1, FileCommits
<1>3. Effect(committed[Latest], proc.all) = LastWrites(committed[Latest], proc.all, DOMAIN proc.all)
  BY <1>2, EffectIsLastWrites
<1>. QED BY <1>2, <1>3

\* What an import of an exported file puts under a key.
Restored(c, format, includeHex, k) ==
    IF includeHex /\ format = "json" /\ c[k] # NoValue THEN c[k] ELSE TextOf[format][c[k]]

\* Importing an exported file restores it: all entries of a key agree on its
\* value, so the last one does.
LEMMA RestoreStep ==
    ASSUME CommandsInv, [CommandsNext]_commandVars, Importing, proc' = proc,
           committed' # committed, PlainNames,
           proc.all = [i \in DOMAIN file |-> EntryOperation(file[i])], NEW i \in DOMAIN file,
           file[i].valueHex # NoValue \/ file[i].value = file[i].was
    PROVE  committed'[ex[cli].version][file[i].from] = file[i].was
<1>1. proc.kind \in BatchKinds
  BY DEF Importing, BatchKinds
<1>2. /\ proc.all \in Seq(Op)
      /\ committed' = Assign(committed, ex[cli].version,
                             LastWrites(committed[Latest], proc.all, DOMAIN proc.all))
  BY <1>1, FileCommits
<1>3. PICK all \in Seq(Op) : all = proc.all
  BY <1>2
<1>4. PICK w : w = LastWrites(committed[Latest], all, DOMAIN all)
  OBVIOUS
<1>5. committed'[ex[cli].version] = w
  BY <1>2, <1>3, <1>4 DEF Assign
<1>6. PICK c \in Contents, format \in Formats, includeHex \in BOOLEAN : \A j \in DOMAIN file :
        /\ file[j] = ExportEntry(file[j].name, file[j].from, c[file[j].from], format, includeHex)
        /\ \/ file[j].from = KeyHash(file[j].name)
           \/ file[j].name \in DOMAIN HexOf /\ file[j].from = HexOf[file[j].name]
  BY DEF CommandsInv, FileRight
<1>7. DOMAIN all = DOMAIN file /\ DOMAIN all \in SUBSET Nat
  BY <1>3
<1>8. ASSUME NEW j \in DOMAIN file
      PROVE  /\ all[j].key = file[j].from
             /\ all[j].value = EntryValue(file[j])
             /\ EntryValue(file[j]) = Restored(c, format, includeHex, file[j].from)
             /\ file[j].was = c[file[j].from]
  <2>1. PICK e : e = file[j]
    OBVIOUS
  <2>2. /\ ~e.bad /\ e.was = c[e.from]
        /\ e.value = TextOf[format][c[e.from]]
        /\ e.valueHex = IF includeHex /\ format = "json" THEN c[e.from] ELSE NoValue
        /\ e.from = KeyHash(e.name) \/ (e.name \in DOMAIN HexOf /\ e.from = HexOf[e.name])
    <3>1. /\ e = ExportEntry(e.name, e.from, c[e.from], format, includeHex)
          /\ e.from = KeyHash(e.name) \/ (e.name \in DOMAIN HexOf /\ e.from = HexOf[e.name])
      BY <1>6, <2>1
    <3>. QED BY <3>1 DEF ExportEntry
  <2>3. ParseImportEntry(e) = e.from
    BY <2>1, <2>2, NamesAreKeys DEF ParseImportEntry, HexKey, PlainNames
  <2>4. all[j] = EntryOperation(e)
    BY <1>3, <2>1
  <2>5. all[j].key = e.from /\ all[j].value = EntryValue(e)
    BY <2>3, <2>4 DEF EntryOperation, Put
  <2>6. EntryValue(e) = Restored(c, format, includeHex, e.from)
    BY <2>2 DEF EntryValue, Restored
  <2>. QED BY <2>1, <2>2, <2>5, <2>6
<1>9. PICK key \in Keys : key = file[i].from
  <2>1. file[i] \in FileEntry
    BY DEF CommandsInv, CommandsTypeOK
  <2>. QED BY <2>1 DEF FileEntry
<1>10. PICK S \in SUBSET Nat : S = DOMAIN all /\ S \in SUBSET DOMAIN all
  BY <1>7
<1>11. PICK m \in S : IsLast(all, S, key, m)
  <2>1. i \in S /\ all[i].key = key
    BY <1>7, <1>8, <1>9, <1>10
  <2>. QED BY <1>10, <2>1, LastExists
<1>12. w[key] = all[m].value
  BY <1>4, <1>10, <1>11, LastValue
<1>13. m \in DOMAIN file /\ file[m].from = key
  BY <1>7, <1>8, <1>10, <1>11 DEF IsLast
<1>14. all[m].value = Restored(c, format, includeHex, key)
  BY <1>8, <1>13
<1>15. EntryValue(file[i]) = Restored(c, format, includeHex, key) /\ file[i].was = c[key]
  BY <1>8, <1>9
<1>16. EntryValue(file[i]) = file[i].was
  <2>1. file[i].valueHex # NoValue => file[i].valueHex = file[i].was
    BY <1>6 DEF ExportEntry
  <2>. QED BY <2>1 DEF EntryValue
<1>. QED BY <1>5, <1>9, <1>12, <1>14, <1>15, <1>16

\* A get at the prompt.
LEMMA PromptStep ==
    ASSUME CommandsInv, [CommandsNext]_commandVars, Prompt, shown' # shown
    PROVE  shown'.value = shown'.latest
<1>1. ctx = Latest /\ proc.kind = "repl" /\ proc.lines = <<>> /\ proc.todo = <<>> /\ ~proc.executed
  BY DEF CommandsInv, PromptRight, Prompt, FileCommandRight, BatchKinds
<1>2. (\E l \in Lines : TypeLine(l)) \/ Exit
  <2>1. shown' # shown => ~UNCHANGED commandVars
    BY DEF commandVars, cmdVars
  <2>2. /\ ~BatchAdd /\ ~ImportAdd /\ ~ImportSkip /\ ~RunExecute /\ ~ExecuteStep /\ ~LibraryStep
        /\ ~StartLibrary /\ ~StartREPL /\ ~ReplImportEntry /\ ~ScriptLine /\ ~ScriptLineFails
    BY <1>1 DEF BatchAdd, ImportAdd, ImportSkip, RunExecute, ExecuteStep, LibraryStep, StartLibrary,
                StartREPL, ReplImportEntry, ScriptLine, ScriptLineFails, InScript
  <2>3. /\ ~\E n \in Keys, hex \in BOOLEAN, v \in Values : RunPut(n, hex, v)
        /\ ~\E n \in Keys, hex \in BOOLEAN : RunDelete(n, hex)
        /\ ~\E ops \in BatchFiles : RunBatch(ops)
        /\ ~\E entries \in Imports \cup {file}, skip \in BOOLEAN : RunImport(entries, skip)
        /\ ~\E v \in 0..MaxVersion, names \in KeyLists, hex \in BOOLEAN,
               format \in Formats, includeHex \in BOOLEAN : RunExportKeys(v, names, hex, format, includeHex)
        /\ ~\E lines \in Scripts : StartScript(lines)
        /\ ~\E entries \in (Imports \cup {file}) \ {<<>>} : StartReplImport(entries)
    BY DEF RunPut, RunDelete, RunBatch, RunImport, RunExportKeys, StartScript, StartReplImport, cmdVars
  <2>. QED BY <2>1, <2>2, <2>3 DEF CommandsNext
<1>3. CASE Exit
  BY <1>3 DEF Exit, NothingShown
<1>4. ASSUME NEW l \in Lines, TypeLine(l) PROVE shown'.value = shown'.latest
  <2>1. ReplGet(l)
    BY <1>4 DEF TypeLine, ReplLine, ReplPut, ReplDelete, ReplExport, ReplVersion
  <2>. QED BY <1>1, <2>1 DEF ReplGet
<1>. QED BY <1>2, <1>3, <1>4

\* A goroutine alone with its batch loses nothing of it.
LEMMA KeptStep ==
    ASSUME CommandsInv, [CommandsNext]_commandVars, Users = {cli}, proc' = proc
    PROVE  OperationsKept
<1>. SUFFICES ASSUME ex[cli].pc # "idle", ex'[cli].pc = "idle", operations' = <<>>
              PROVE  ex[cli].pc = "clear" /\ operations = ex[cli].all
  BY DEF OperationsKept
<1>1. operations = ex[cli].all /\ operations # <<>>
  BY DEF CommandsInv, AloneRight
<1>2. ex' # ex /\ operations' # operations
  BY <1>1
<1>3. Execute(cli)
  <2>1. ~UNCHANGED commandVars
    BY <1>2 DEF commandVars, batchVars
  <2>2. ~BatchAdd /\ ~ImportAdd /\ ~ImportSkip /\ ~RunExecute
    BY <1>2 DEF BatchAdd, ImportAdd, ImportSkip, RunExecute, Add, StartExecute, batchVars
  <2>3. /\ ~StartLibrary /\ ~StartREPL /\ ~Exit
        /\ ~\E ops \in BatchFiles : RunBatch(ops)
        /\ ~\E entries \in Imports \cup {file}, skip \in BOOLEAN : RunImport(entries, skip)
    <3>1. \A p : Start(p) => p = NoProcess
      BY DEF Start
    <3>2. \A kind, todo, all : Process(kind, todo, all) = NoProcess => kind = "none"
      BY DEF Process, NoProcess
    <3>3. ~StartLibrary /\ ~StartREPL
      BY <3>1, <3>2 DEF StartLibrary, StartREPL
    <3>4. ~\E ops \in BatchFiles : RunBatch(ops)
      BY <3>1, <3>2 DEF RunBatch
    <3>5. ~\E entries \in Imports \cup {file}, skip \in BOOLEAN : RunImport(entries, skip)
      BY <3>1, <3>2 DEF RunImport
    <3>. QED BY <3>3, <3>4, <3>5 DEF Exit
  <2>4. /\ ~\E n \in Keys, hex \in BOOLEAN, v \in Values : RunPut(n, hex, v)
        /\ ~\E n \in Keys, hex \in BOOLEAN : RunDelete(n, hex)
        /\ ~\E v \in 0..MaxVersion, names \in KeyLists, hex \in BOOLEAN,
               format \in Formats, includeHex \in BOOLEAN : RunExportKeys(v, names, hex, format, includeHex)
    BY <1>2 DEF RunPut, RunDelete, NewVersion, RunExportKeys, batchVars
  <2>5. /\ ~\E lines \in Scripts : StartScript(lines)
        /\ ~\E entries \in (Imports \cup {file}) \ {<<>>} : StartReplImport(entries)
        /\ ~ScriptLineFails /\ ~ReplImportEntry
    BY <1>2 DEF StartScript, StartReplImport, ScriptLineFails, ReplImportEntry, NewVersion, batchVars
  <2>6. (~\E l \in Lines : TypeLine(l)) /\ ~ScriptLine
    BY <1>2 DEF TypeLine, ScriptLine, ReplLine, ReplVersion, ReplPut, ReplDelete, ReplGet, ReplExport,
                NewVersion, batchVars
  <2>7. ExecuteStep \/ LibraryStep
    BY <2>1, <2>2, <2>3, <2>4, <2>5, <2>6 DEF CommandsNext
  <2>8. BatchNext => Execute(cli)
    BY <1>2 DEF BatchNext, BatchPut, BatchDelete, Add, Clear, StartExecute
  <2>. QED BY <2>7, <2>8 DEF ExecuteStep, LibraryStep
<1>4. ex[cli].pc = "clear"
  BY <1>2, <1>3 DEF Execute, BeginVersion, BeginFails, ApplyOp, ApplyFails, CommitVersion, CommitFails,
                    Fail, ClearExecuted
<1>. QED BY <1>1, <1>4

-----------------------------------------------------------------------------
(* The theorems.                                                           *)

\* The inductive invariant holds in every state the commands reach.
THEOREM CommandsInvariant == CommandsSpec => []CommandsInv
BY CommandsInitInv, CommandsNextInv, PTL DEF CommandsSpec

\* Every variable keeps its type: the batch, the Execute calls and the
\* process, the prompt's version, the exported file and what was shown.
THEOREM CommandsTypes == CommandsSpec => [](CommandsTypeOK /\ BatchTypeOK)
<1>1. CommandsInv => CommandsTypeOK /\ BatchTypeOK
  BY DEF CommandsInv, BatchInv
<1>. QED BY <1>1, CommandsInvariant, PTL

\* A version Execute commits is its parent's contents after every operation of
\* the batch, one after the other, with any number of goroutines, operations
\* and keys (optimizeOperationsLocked, Execute).
THEOREM ExecuteIsSequential == CommandsSpec => []ExecutedIsSequential
<1>1. CommandsInv => ExecutedIsSequential
  BY BatchInvSequential DEF CommandsInv
<1>. QED BY <1>1, CommandsInvariant, PTL

\* batch and import commit their whole file or nothing (runBatch, runImport).
THEOREM BatchAndImportAreAtomic == CommandsSpec => CommandsAreAtomic
<1>1. CommandsInv /\ [CommandsNext]_commandVars =>
        [(Importing \/ proc.kind = "batch") /\ proc' = proc /\ committed' # committed =>
           /\ operations = proc.all
           /\ committed' = Assign(committed, ex[cli].version,
                                  Effect(committed[Latest], proc.all))]_commandVars
  BY AtomicStep
<1>. QED BY <1>1, CommandsInvariant, PTL DEF CommandsSpec, CommandsAreAtomic

\* Importing what was exported puts back, byte for byte, every value the file
\* holds in hexadecimal and every one its format's text can hold, whatever the
\* format does to the others (runExportKeys, replExportKeys, runImport,
\* parseImportEntry).
THEOREM ImportsRestore == CommandsSpec => ImportRestoresExport
<1>1. CommandsInv /\ [CommandsNext]_commandVars =>
        [RestoringStep /\ PlainNames =>
           \A i \in DOMAIN file :
              file[i].valueHex # NoValue \/ file[i].value = file[i].was =>
                 committed'[ex[cli].version][file[i].from] = file[i].was]_commandVars
  BY RestoreStep DEF RestoringStep
<1>. QED BY <1>1, CommandsInvariant, PTL DEF CommandsSpec, ImportRestoresExport

\* A get at the prompt that follows no typed version prints the value of the
\* latest version (runREPL).
THEOREM PromptIsFresh == CommandsSpec => PromptReadsLatest
<1>1. CommandsInv /\ [CommandsNext]_commandVars =>
        [Prompt /\ proc.asked = NotAsked /\ shown' # shown => shown'.value = shown'.latest]_commandVars
  BY PromptStep
<1>. QED BY <1>1, CommandsInvariant, PTL DEF CommandsSpec, PromptReadsLatest

\* A goroutine alone with its batch loses no accepted operation; with a second
\* one the final clear of Execute does lose some (Execute, Clear).
THEOREM NothingAcceptedIsLost ==
    ASSUME Users = {cli}
    PROVE  CommandsSpec => AcceptedIsExecuted
<1>1. CommandsInv /\ [CommandsNext]_commandVars => [proc' = proc => OperationsKept]_commandVars
  BY KeptStep
<1>. QED BY <1>1, CommandsInvariant, PTL DEF CommandsSpec, AcceptedIsExecuted
=============================================================================
