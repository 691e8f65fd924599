--------------------------- MODULE BatchTransaction ---------------------------
(***************************************************************************)
(* pkg/tree/batch_transaction.go: operations are collected under a mutex,  *)
(* the last one of each key is kept, and Execute applies them in one new   *)
(* version.                                                                *)
(*                                                                         *)
(* The tree below is the part Execute uses, with whole contents for nodes: *)
(* BeginVersion takes the latest contents, PutVersioned and                *)
(* DeleteVersioned change a pending copy, CommitVersion makes it durable   *)
(* (module Tree).  Any of the calls may fail on storage.  A kill loses     *)
(* everything but the committed versions.                                  *)
(***************************************************************************)
EXTENDS Naturals, Sequences, FiniteSets, SequencesExt

CONSTANTS
    Users,      \* goroutines that share the batch
    Keys,       \* tree keys
    Values,     \* values
    NoValue,    \* no value under a key
    MaxVersion, \* bound: versions begun
    MaxOps      \* bound: operations in the batch

ASSUME BatchBounds == MaxVersion \in Nat /\ MaxOps \in Nat
ASSUME BatchValues == NoValue \notin Values

VARIABLES
    operations, \* bt.operations
    keyOps,     \* key to the index of its latest operation
    ex,         \* the Execute call of each user
    committed,  \* version to contents
    parent,     \* committed version to the version it was begun on
    nextVersion \* the number the next BeginVersion gives

batchVars == <<operations, keyOps, ex, committed, parent, nextVersion>>

Contents == [Keys -> Values \cup {NoValue}]

\* A deletion is an operation with no value.
Put(k, v) == [key |-> k, value |-> v]
Delete(k) == [key |-> k, value |-> NoValue]
Op == [key : Keys, value : Values \cup {NoValue}]

\* pc; the operations to apply and all that were in the batch; the version
\* begun, its parent and pending contents.
Idle == [pc |-> "idle", ops |-> <<>>, all |-> <<>>, version |-> 0, base |-> 0, pending |-> <<>>]

\* A map with one entry added or replaced.
Assign(m, k, v) == [x \in DOMAIN m \cup {k} |-> IF x = k THEN v ELSE m[x]]

\* The latest version of a map of versions.
Newest(m) == CHOOSE v \in DOMAIN m : \A w \in DOMAIN m : w <= v
Latest == Newest(committed)

\* What a new tree holds: the empty version 0.
NoVersions == [v \in {0} |-> [k \in Keys |-> NoValue]]
NoParents == [v \in {0} |-> 0]

BatchInit ==
    /\ operations = <<>>
    /\ keyOps = <<>>
    /\ ex = [u \in Users |-> Idle]
    /\ committed = NoVersions
    /\ parent = NoParents
    /\ nextVersion = 1

-----------------------------------------------------------------------------

\* The operation is appended and becomes the latest one of its key.
Add(u, op) ==
    /\ ex[u].pc = "idle" /\ Len(operations) < MaxOps
    /\ operations' = Append(operations, op)
    /\ keyOps' = Assign(keyOps, op.key, Len(operations) + 1)
    /\ UNCHANGED <<ex, committed, parent, nextVersion>>

BatchPut(u, k, v) == Add(u, Put(k, v))
BatchDelete(u, k) == Add(u, Delete(k))

Clear(u) ==
    /\ ex[u].pc = "idle" /\ operations # <<>>
    /\ operations' = <<>> /\ keyOps' = <<>>
    /\ UNCHANGED <<ex, committed, parent, nextVersion>>

\* The elements of a sequence at some of its positions, in order.
Position(I, j) == CHOOSE i \in I : Cardinality({m \in I : m <= i}) = j
At(s, I) == [j \in 1..Cardinality(I) |-> s[Position(I, j)]]

\* Mutant: the first operation of each key is kept.
FirstOperations(ops, idx) ==
    At(ops, {CHOOSE j \in DOMAIN ops : ops[j].key = k /\ \A m \in 1..(j-1) : ops[m].key # k
                : k \in DOMAIN idx})

\* optimizeOperationsLocked: the operations whose index keyOps has, in order.
OptimizeOperations(ops, idx) == At(ops, {idx[k] : k \in DOMAIN idx})

\* The copy made under the mutex; an empty batch is an error.
StartExecute(u) ==
    /\ ex[u].pc = "idle" /\ operations # <<>>
    /\ ex' = [ex EXCEPT ![u] = [Idle EXCEPT !.pc = "begin", !.all = operations,
                                            !.ops = OptimizeOperations(operations, keyOps)]]
    /\ UNCHANGED <<operations, keyOps, committed, parent, nextVersion>>

\* BeginVersion, on the latest version.
BeginVersion(u) ==
    /\ ex[u].pc = "begin" /\ nextVersion <= MaxVersion
    /\ ex' = [ex EXCEPT ![u].pc = "apply", ![u].version = nextVersion, ![u].base = Latest,
                        ![u].pending = committed[Latest]]
    /\ nextVersion' = nextVersion + 1
    /\ UNCHANGED <<operations, keyOps, committed, parent>>

\* An error return: the version is aborted, the operations stay.
Fail(u) ==
    /\ ex' = [ex EXCEPT ![u] = Idle]
    /\ UNCHANGED <<operations, keyOps, committed, parent, nextVersion>>

BeginFails(u) == ex[u].pc = "begin" /\ nextVersion > MaxVersion /\ Fail(u)

\* PutVersioned or DeleteVersioned of the next operation.
ApplyOp(u) ==
    /\ ex[u].pc = "apply" /\ ex[u].ops # <<>>
    /\ LET op == Head(ex[u].ops) IN
        /\ op.value = NoValue => ex[u].pending[op.key] # NoValue
        /\ ex' = [ex EXCEPT ![u].pending[op.key] = op.value, ![u].ops = Tail(@)]
    /\ UNCHANGED <<operations, keyOps, committed, parent, nextVersion>>

\* Deleting an absent key is an error, and any operation may fail on storage.
ApplyFails(u) == ex[u].pc = "apply" /\ ex[u].ops # <<>> /\ Fail(u)

\* Mutant: the batch is cleared although the commit may still fail.
CommitAfterClear(u) ==
    /\ ex[u].pc = "apply" /\ ex[u].ops = <<>>
    /\ operations' = <<>> /\ keyOps' = <<>>
    /\ \/ committed' = Assign(committed, ex[u].version, ex[u].pending)
          /\ parent' = Assign(parent, ex[u].version, ex[u].base)
       \/ UNCHANGED <<committed, parent>>
    /\ ex' = [ex EXCEPT ![u] = Idle]
    /\ UNCHANGED nextVersion

\* CommitVersion makes the version durable and visible.
CommitVersion(u) ==
    /\ ex[u].pc = "apply" /\ ex[u].ops = <<>>
    /\ committed' = Assign(committed, ex[u].version, ex[u].pending)
    /\ parent' = Assign(parent, ex[u].version, ex[u].base)
    /\ ex' = [ex EXCEPT ![u].pc = "clear"]
    /\ UNCHANGED <<operations, keyOps, nextVersion>>

CommitFails(u) == ex[u].pc = "apply" /\ ex[u].ops = <<>> /\ Fail(u)

\* The batch is cleared under the mutex, whatever it holds by now.
ClearExecuted(u) ==
    /\ ex[u].pc = "clear"
    /\ operations' = <<>> /\ keyOps' = <<>>
    /\ ex' = [ex EXCEPT ![u] = Idle]
    /\ UNCHANGED <<committed, parent, nextVersion>>

\* Execute, after its start.
Execute(u) ==
    \/ BeginVersion(u) \/ BeginFails(u)
    \/ ApplyOp(u) \/ ApplyFails(u)
    \/ CommitVersion(u) \/ CommitFails(u)
    \/ ClearExecuted(u)

BatchNext ==
    \E u \in Users :
        \/ \E k \in Keys, v \in Values : BatchPut(u, k, v)
        \/ \E k \in Keys : BatchDelete(u, k)
        \/ Clear(u)
        \/ StartExecute(u)
        \/ Execute(u)

-----------------------------------------------------------------------------
(* Properties.                                                              *)

\* What the operations do one after the other, all of them.
Effect(contents, ops) ==
    FoldLeft(LAMBDA m, op : [m EXCEPT ![op.key] = op.value], contents, ops)

\* Execute is all or nothing and keeps the order: the version it commits is
\* its parent's contents after every operation the batch had when Execute
\* began, one after the other, although only the last one of each key is run
\* (optimizeOperationsLocked, Execute).
ExecutedIsSequential ==
    \A u \in Users : ex[u].pc = "clear" =>
        committed[ex[u].version] =
            Effect(committed[parent[ex[u].version]], ex[u].all)

\* An Execute removes from the batch exactly what it committed, and a failing
\* one nothing (Execute's error returns and its final clear).
OperationsKept ==
    \A u \in Users : ex[u].pc # "idle" /\ ex'[u].pc = "idle" /\ operations' = <<>> =>
        ex[u].pc = "clear" /\ operations = ex[u].all
=============================================================================
