------------------------------- MODULE Commands -------------------------------
(***************************************************************************)
(* The command line, cmd/pb/commands: put, delete, batch, import and       *)
(* export-keys as processes of their own, and the REPL as a session.       *)
(*                                                                         *)
(* A database directory is opened by one process at a time; the process    *)
(* may be killed at any point, and what is left is what was committed.  A  *)
(* database made with the memory backend is empty in every process.        *)
(*                                                                         *)
(* A key on the command line is a name.  KeyHash turns a name into a tree  *)
(* key; a name of 64 hexadecimal digits can also be decoded into the tree  *)
(* key it spells, which is the hash of another name.  Tree keys are        *)
(* written as the names they are the hashes of.  Names are text.           *)
(*                                                                         *)
(* Values are bytes.  An exported file holds them as text: JSON replaces   *)
(* what is not UTF-8, CSV drops the carriage return of a line break.       *)
(***************************************************************************)
EXTENDS BatchTransaction

CONSTANTS
    cli,        \* the goroutine of a command; a library process has all Users
    KeyLists,   \* lists of names to export
    LongNames,  \* names of 64 characters
    HexOf,      \* a name of 64 digits to the name whose hash it spells
    TextOf,     \* the value a format's reader gets of a value written as text
    BatchFiles, \* files of operations, for batch
    Imports,    \* files of entries, for import, besides the exported one
    Scripts     \* files of REPL lines

ASSUME ProcessIsUser == cli \in Users
ASSUME NamesAreKeys ==
    /\ KeyLists \subseteq Seq(Keys) \ {<<>>}
    /\ LongNames \subseteq Keys
    /\ DOMAIN HexOf \subseteq LongNames /\ HexOf \in [DOMAIN HexOf -> Keys]

Formats == {"json", "csv"}
ASSUME TextIsValue == TextOf \in [Formats -> [Values -> Values]]

VARIABLES
    backend,    \* "memory" or "pebble"
    proc,       \* the running process
    ctx,        \* the REPL's ctx.version
    file,       \* the entries of the last export, as an import reads them
    shown       \* what the last get of the REPL printed

cmdVars == <<backend, proc, ctx, file, shown>>
commandVars == <<batchVars, cmdVars>>

\* kind of command; the operations or entries still to do; all the
\* operations they stand for; whether Execute was called; the rest of a
\* script; the version the prompt was last told to switch to.
NotAsked == MaxVersion + 1
NoProcess == [kind |-> "none", todo |-> <<>>, all |-> <<>>, executed |-> FALSE, lines |-> <<>>,
              asked |-> NotAsked]
Process(k, todo, all) == [NoProcess EXCEPT !.kind = k, !.todo = todo, !.all = all]
NothingShown == [version |-> 0, value |-> NoValue, latest |-> NoValue]

CommandsInit ==
    /\ BatchInit
    /\ backend \in {"memory", "pebble"}
    /\ proc = NoProcess
    /\ ctx = 0
    /\ file = <<>>
    /\ shown = NothingShown

-----------------------------------------------------------------------------
(* Keys and entries.                                                       *)

NoKey == "no key"
KeyHash(n) == n
HexKey(n) == IF n \in DOMAIN HexOf THEN HexOf[n] ELSE NoKey

\* --hex-key of put, get and delete, --keys-format of export-keys.
ParseKey(n, hex) == IF hex THEN HexKey(n) ELSE KeyHash(n)

\* Mutant: import hashes every name.
HashEntry(e) == IF e.bad THEN NoKey ELSE KeyHash(e.name)

\* parseImportEntry, the key: 64 characters are taken for a key in hexadecimal,
\* and refused if they are not.  bad: a value_hex that does not decode.
ParseImportEntry(e) ==
    IF e.bad THEN NoKey
    ELSE IF e.name \in LongNames THEN HexKey(e.name) ELSE KeyHash(e.name)

\* parseImportEntry and replImport, the value: value_hex before the text.
EntryValue(e) == IF e.valueHex # NoValue THEN e.valueHex ELSE e.value

\* validateOperation: a put needs a value, both need a key.
ValidOperation(op) == op.type = "put" => op.value # NoValue

OperationOf(op) == IF op.type = "put" THEN Put(KeyHash(op.name), op.value) ELSE Delete(KeyHash(op.name))
EntryOperation(e) == Put(ParseImportEntry(e), EntryValue(e))
GoodEntries(es) == At(es, {i \in DOMAIN es : ParseImportEntry(es[i]) # NoKey})

-----------------------------------------------------------------------------
(* Processes.                                                              *)

\* openDatabase and openTree: the committed versions, or a fresh memory store.
Opened == IF backend = "memory" THEN NoVersions ELSE committed
OpenedParents == IF backend = "memory" THEN NoParents ELSE parent

\* A new process begins on what is stored; numbers go on after the latest.
Start(p) ==
    /\ proc = NoProcess
    /\ proc' = p
    /\ committed' = Opened /\ parent' = OpenedParents
    /\ nextVersion' = 1 + Newest(Opened)
    /\ operations' = <<>> /\ keyOps' = <<>> /\ ex' = [u \in Users |-> Idle]

\* The process ends, or is killed.
Exit ==
    /\ proc # NoProcess
    /\ proc' = NoProcess
    /\ operations' = <<>> /\ keyOps' = <<>> /\ ex' = [u \in Users |-> Idle]
    /\ committed' = Opened /\ parent' = OpenedParents
    /\ nextVersion' = 1 + Newest(Opened)
    /\ ctx' = 0 /\ shown' = NothingShown
    /\ UNCHANGED <<backend, file>>

\* tree.Put and tree.Delete: one version of their own.
NewVersion(k, v) ==
    /\ nextVersion <= MaxVersion
    /\ v = NoValue => committed[Latest][k] # NoValue
    /\ committed' = Assign(committed, nextVersion, [committed[Latest] EXCEPT ![k] = v])
    /\ parent' = Assign(parent, nextVersion, Latest)
    /\ nextVersion' = nextVersion + 1
    /\ UNCHANGED <<operations, keyOps, ex>>

\* put and delete: runPut, runDelete.
RunPut(n, hex, v) ==
    /\ proc = NoProcess /\ backend = "pebble"
    /\ ParseKey(n, hex) # NoKey
    /\ NewVersion(ParseKey(n, hex), v)
    /\ UNCHANGED cmdVars

RunDelete(n, hex) ==
    /\ proc = NoProcess /\ backend = "pebble"
    /\ ParseKey(n, hex) # NoKey
    /\ NewVersion(ParseKey(n, hex), NoValue)
    /\ UNCHANGED cmdVars

\* batch: every operation is validated before the database is opened.
RunBatch(ops) ==
    /\ \A i \in DOMAIN ops : ValidOperation(ops[i])
    /\ Start(Process("batch", ops, [i \in DOMAIN ops |-> OperationOf(ops[i])]))
    /\ UNCHANGED <<backend, ctx, file, shown>>

\* The next operation goes into the batch.
BatchAdd ==
    /\ proc.kind = "batch" /\ proc.todo # <<>>
    /\ Add(cli, OperationOf(Head(proc.todo)))
    /\ proc' = [proc EXCEPT !.todo = Tail(@)]
    /\ UNCHANGED <<backend, ctx, file, shown>>

\* import, with --skip-errors or without.
RunImport(entries, skip) ==
    /\ entries # <<>>
    /\ LET meant == IF skip THEN GoodEntries(entries) ELSE entries IN
        Start(Process(IF skip THEN "importSkip" ELSE "import", entries,
                      [i \in DOMAIN meant |-> EntryOperation(meant[i])]))
    /\ UNCHANGED <<backend, ctx, file, shown>>

Importing == proc.kind \in {"import", "importSkip"}

ImportAdd ==
    /\ Importing /\ proc.todo # <<>> /\ ParseImportEntry(Head(proc.todo)) # NoKey
    /\ Add(cli, EntryOperation(Head(proc.todo)))
    /\ proc' = [proc EXCEPT !.todo = Tail(@)]
    /\ UNCHANGED <<backend, ctx, file, shown>>

\* Mutant: without --skip-errors a bad entry is skipped too.
ImportSkipAlways ==
    /\ Importing /\ proc.todo # <<>> /\ ParseImportEntry(Head(proc.todo)) = NoKey
    /\ proc' = [proc EXCEPT !.todo = Tail(@)]
    /\ UNCHANGED <<batchVars, backend, ctx, file, shown>>

\* A bad entry is skipped, or ends the command (then the process only exits).
ImportSkip ==
    /\ proc.kind = "importSkip" /\ proc.todo # <<>> /\ ParseImportEntry(Head(proc.todo)) = NoKey
    /\ proc' = [proc EXCEPT !.todo = Tail(@)]
    /\ UNCHANGED <<batchVars, backend, ctx, file, shown>>

\* Execute, once everything is in the batch; an empty batch is left alone.
RunExecute ==
    /\ Importing \/ proc.kind = "batch"
    /\ proc.todo = <<>> /\ ~proc.executed
    /\ StartExecute(cli)
    /\ proc' = [proc EXCEPT !.executed = TRUE]
    /\ UNCHANGED <<backend, ctx, file, shown>>

ExecuteStep == proc.executed /\ Execute(cli) /\ UNCHANGED cmdVars

\* A Go program that uses a batch itself.
StartLibrary == Start(Process("library", <<>>, <<>>)) /\ UNCHANGED <<backend, ctx, file, shown>>
LibraryStep == proc.kind = "library" /\ BatchNext /\ UNCHANGED cmdVars

\* One exported entry, written in a format and read back: --hex adds
\* value_hex, which both imports read from JSON and neither from CSV.  from is
\* the tree key, was the value in the tree; no import reads them.
ExportEntry(n, k, v, format, includeHex) ==
    [name |-> n, from |-> k, was |-> v, value |-> TextOf[format][v],
     valueHex |-> IF includeHex /\ format = "json" THEN v ELSE NoValue, bad |-> FALSE]

\* export-keys and the REPL's export: of the listed names, the ones that have
\* a value.
Exported(contents, names, hex, format, includeHex) ==
    LET found == At(names, {i \in DOMAIN names : contents[ParseKey(names[i], hex)] # NoValue})
    IN [i \in DOMAIN found |->
          ExportEntry(found[i], ParseKey(found[i], hex), contents[ParseKey(found[i], hex)],
                      format, includeHex)]

\* A list with a name that does not decode is refused.
RunExportKeys(v, names, hex, format, includeHex) ==
    /\ proc = NoProcess /\ v \in DOMAIN Opened
    /\ \A i \in DOMAIN names : ParseKey(names[i], hex) # NoKey
    /\ file' = Exported(Opened[v], names, hex, format, includeHex)
    /\ UNCHANGED <<batchVars, backend, proc, ctx, shown>>

-----------------------------------------------------------------------------
(* The REPL.                                                               *)

StartREPL ==
    /\ Start(Process("repl", <<>>, <<>>))
    /\ ctx' = Newest(Opened)
    /\ UNCHANGED <<backend, file, shown>>

\* A line typed, or the next line of a script; a typed line is followed by
\* the refresh of ctx.version, so is the end of a script.
Prompt == proc.kind = "repl" /\ proc.lines = <<>> /\ proc.todo = <<>>
InScript == proc.kind = "repl" /\ proc.lines # <<>> /\ proc.todo = <<>>

NextLine == [proc EXCEPT !.lines = Tail(@)]

\* Mutant: the version is not refreshed after a line.
KeepVersion == ctx' = ctx

Refresh == ctx' = Newest(committed')

\* The line l = [cmd, name, value, version] is run and the session goes on.
ReplPut(l) == l.cmd = "put" /\ NewVersion(KeyHash(l.name), l.value) /\ UNCHANGED <<file, shown>>
ReplDelete(l) == l.cmd = "delete" /\ NewVersion(KeyHash(l.name), NoValue) /\ UNCHANGED <<file, shown>>
ReplGet(l) ==
    /\ l.cmd = "get" /\ ctx \in DOMAIN committed
    /\ shown' = [version |-> ctx, value |-> committed[ctx][KeyHash(l.name)],
                 latest |-> committed[Latest][KeyHash(l.name)]]
    /\ UNCHANGED <<batchVars, file>>
ReplExport(l) ==
    /\ l.cmd = "export" /\ ctx \in DOMAIN committed
    /\ Exported(committed[ctx], l.names, FALSE, "json", FALSE) # <<>>
    /\ file' = Exported(committed[ctx], l.names, FALSE, "json", FALSE)
    /\ UNCHANGED <<batchVars, shown>>

ReplLine(l) == ReplPut(l) \/ ReplDelete(l) \/ ReplGet(l) \/ ReplExport(l)

\* version n leaves the committed versions alone.
ReplVersion(l) == l.cmd = "version" /\ UNCHANGED <<batchVars, file, shown>>

\* What the prompt is told to switch to holds for the gets that follow.
Asked(l) ==
    CASE l.cmd = "version" -> l.version
      [] l.cmd = "get" -> proc.asked
      [] OTHER -> NotAsked

\* A typed line, with its refresh: a typed version is gone with it.
TypeLine(l) ==
    /\ Prompt
    /\ ReplLine(l) \/ ReplVersion(l)
    /\ Refresh
    /\ proc' = [proc EXCEPT !.asked = Asked(l)]
    /\ UNCHANGED backend

\* batch <file>: the lines are run one by one; only the last one is followed
\* by the refresh.  A line may fail, the next one is run all the same.
StartScript(lines) ==
    /\ Prompt
    /\ proc' = [proc EXCEPT !.lines = lines, !.asked = NotAsked]
    /\ UNCHANGED <<batchVars, backend, ctx, file, shown>>

ScriptLine ==
    /\ InScript
    /\ proc' = NextLine
    /\ \/ ReplLine(Head(proc.lines)) /\ (IF Len(proc.lines) = 1 THEN Refresh ELSE UNCHANGED ctx)
       \/ /\ ReplVersion(Head(proc.lines))
          /\ IF Len(proc.lines) = 1 THEN Refresh ELSE ctx' = Head(proc.lines).version
    /\ UNCHANGED backend

ScriptLineFails ==
    /\ InScript
    /\ proc' = NextLine
    /\ UNCHANGED <<batchVars, backend, file, shown>>
    /\ IF Len(proc.lines) = 1 THEN Refresh ELSE UNCHANGED ctx

\* import <file>: one Put for each entry, under the hash of its name.
StartReplImport(entries) ==
    /\ Prompt
    /\ proc' = [proc EXCEPT !.todo = entries, !.asked = NotAsked]
    /\ UNCHANGED <<batchVars, backend, ctx, file, shown>>

ReplImportEntry ==
    /\ proc.kind = "repl" /\ proc.todo # <<>>
    /\ proc' = [proc EXCEPT !.todo = Tail(@)]
    /\ \/ /\ ~Head(proc.todo).bad
          /\ NewVersion(KeyHash(Head(proc.todo).name), EntryValue(Head(proc.todo)))
       \/ UNCHANGED batchVars
    /\ IF Len(proc.todo) = 1 THEN Refresh ELSE UNCHANGED ctx
    /\ UNCHANGED <<backend, file, shown>>

-----------------------------------------------------------------------------

Lines == [cmd : {"put"}, name : Keys, value : Values] \cup [cmd : {"get", "delete"}, name : Keys]
         \cup [cmd : {"version"}, version : 0..MaxVersion] \cup [cmd : {"export"}, names : KeyLists]

\* What batch, import and REPL files hold once they are parsed.
FileOperation == [type : {"put", "delete"}, name : Keys, value : Values \cup {NoValue}]
FileEntry == [name : Keys, from : Keys, was : Values, value : Values,
              valueHex : Values \cup {NoValue}, bad : BOOLEAN]

ASSUME FilesAreParsed ==
    /\ NoKey \notin Keys
    /\ BatchFiles \subseteq Seq(FileOperation)
    /\ Imports \subseteq Seq(FileEntry)
    /\ Scripts \subseteq Seq(Lines)

CommandsNext ==
    \/ \E n \in Keys, hex \in BOOLEAN, v \in Values : RunPut(n, hex, v)
    \/ \E n \in Keys, hex \in BOOLEAN : RunDelete(n, hex)
    \/ \E ops \in BatchFiles : RunBatch(ops)
    \/ \E entries \in Imports \cup {file}, skip \in BOOLEAN : RunImport(entries, skip)
    \/ BatchAdd \/ ImportAdd \/ ImportSkip \/ RunExecute \/ ExecuteStep
    \/ StartLibrary \/ LibraryStep
    \/ \E v \in 0..MaxVersion, names \in KeyLists, hex \in BOOLEAN,
          format \in Formats, includeHex \in BOOLEAN : RunExportKeys(v, names, hex, format, includeHex)
    \/ StartREPL
    \/ \E l \in Lines : TypeLine(l)
    \/ \E lines \in Scripts : StartScript(lines)
    \/ ScriptLine \/ ScriptLineFails
    \/ \E entries \in (Imports \cup {file}) \ {<<>>} : StartReplImport(entries)
    \/ ReplImportEntry
    \/ Exit

CommandsSpec == CommandsInit /\ [][CommandsNext]_commandVars

-----------------------------------------------------------------------------
(* Properties.                                                              *)

\* batch and import are all or nothing, whatever fails and whenever the
\* process is killed: a version they commit is the latest one before them
\* after every operation of the file, and a file with a bad entry commits
\* nothing unless errors are skipped (runBatch, runImport: "either all
\* succeed or all fail").
CommandsAreAtomic ==
    [][(Importing \/ proc.kind = "batch") /\ proc' = proc /\ committed' # committed =>
         /\ operations = proc.all
         /\ committed' = Assign(committed, ex[cli].version, Effect(committed[Latest], proc.all))]_commandVars

\* No text name in the exported file has 64 characters.
PlainNames == \A i \in DOMAIN file : file[i].name \in LongNames => file[i].from # KeyHash(file[i].name)

\* The import under way is the one of the exported file, and commits.
RestoringStep ==
    /\ Importing /\ proc' = proc /\ committed' # committed
    /\ proc.all = [i \in DOMAIN file |-> EntryOperation(file[i])]

\* Importing what was exported puts a value back, byte for byte, under the
\* tree key it was read from: names through KeyHash, keys listed in
\* hexadecimal through decoding.  It does so for every value the file holds in
\* hexadecimal, that is in JSON with --hex, and for every other one that text
\* of the file's format can hold; text names of 64 characters are excepted
\* (runExportKeys, replExportKeys, runImport, parseImportEntry).
ImportRestoresExport ==
    [][RestoringStep /\ PlainNames =>
         \A i \in DOMAIN file :
            file[i].valueHex # NoValue \/ file[i].value = file[i].was =>
               committed'[ex[cli].version][file[i].from] = file[i].was]_commandVars

\* Not so: every value comes back (docs/how-to/cli/import-export.md:7 "useful
\* for backups, migrations").  Without --hex, and in CSV with it, bytes that
\* are not text are replaced.
ImportRestoresEveryValue ==
    [][RestoringStep /\ PlainNames =>
         \A i \in DOMAIN file : committed'[ex[cli].version][file[i].from] = file[i].was]_commandVars

\* A get at the prompt prints the value of the latest version, whatever was
\* put, deleted, imported or run from a script before; gets after a typed
\* "version n" are not claimed to (runREPL's refresh, executeReplCommand).
PromptReadsLatest ==
    [][Prompt /\ proc.asked = NotAsked /\ shown' # shown => shown'.value = shown'.latest]_commandVars

\* Not so: gets after a typed "version n" read version n (docs/how-to/cli/
\* repl-mode.md:205-208, "Switched to version: 50", then 'old value').  The
\* refresh after every typed line puts the latest version back.
PromptKeepsVersion ==
    [][Prompt /\ proc.asked # NotAsked /\ shown' # shown => shown'.version = proc.asked]_commandVars

\* While the process lives, no accepted operation leaves a batch without being
\* executed, and a failed Execute can be tried again (Execute, Clear).
AcceptedIsExecuted == [][proc' = proc => OperationsKept]_commandVars
=============================================================================
