------------------------------ MODULE MCCommands ------------------------------
(* Bounded instances of Commands and BatchTransaction for TLC.             *)
EXTENDS Commands

CONSTANTS n, h, x, y, other

OneUser == {cli}
NoFiles == {}
TwoUsers == {cli, other}
OneName == {n}
TwoNames == {n, h}
OneKeyList == {<<n>>}
MCKeyLists == {<<n, h>>, <<h>>}
TwoValues == {x, y}

\* h has 64 characters and spells the hash of n.
OnlyH == {h}
HOfN == (h :> n)
NoLongNames == {}
NoHex == <<>>

\* y is not UTF-8; JSON makes x of it.  Neither has a line break.
YIsBinary == [f \in Formats |-> [v \in TwoValues |-> IF f = "json" THEN x ELSE v]]

PutOp(k, v) == [type |-> "put", name |-> k, value |-> v]
DeleteOp(k) == [type |-> "delete", name |-> k, value |-> NoValue]
Entry(k, v, b) == [name |-> k, from |-> k, was |-> v, value |-> v, valueHex |-> NoValue, bad |-> b]

\* One operation per key or two on the same key, deletions of what may not be
\* there, and an operation without a value.
MCBatchFiles ==
    {<<PutOp(n, x), PutOp(n, y)>>, <<PutOp(n, x), DeleteOp(n)>>, <<DeleteOp(h), PutOp(h, y)>>,
     <<PutOp(n, x), PutOp(h, NoValue)>>}

MCImports == {<<Entry(n, x, FALSE), Entry(h, y, TRUE)>>}

MCScripts ==
    {<<[cmd |-> "put", name |-> n, value |-> y], [cmd |-> "get", name |-> n]>>,
     <<[cmd |-> "version", version |-> 1], [cmd |-> "get", name |-> n], [cmd |-> "delete", name |-> n]>>}
=============================================================================
