----------------------------- MODULE MCLibrary -----------------------------
(* The building blocks the rest of the kernel calls, each used by itself:  *)
(* a behaviour works on one of them and leaves the others as they are.     *)
EXTENDS SingleDeque, StringOps, Logger

VARIABLE part    \* "list", "bytes" or "log"

allvars == <<part, vars, strvars, logvars>>

MCInts == {-128, -1, 0, 10, 255}

MCStrings == {<<>>, <<"%", "d">>}

NoCall == [f |-> "strlen", dest |-> 0, src |-> 0, c |-> 0, n |-> 0]

MCInit ==
  /\ part \in {"list", "bytes", "log"}
  /\ IF part = "list" THEN Init
     ELSE /\ d = [head |-> [l \in Lists |-> Null], tail |-> [l \in Lists |-> Null],
                  next |-> [v \in Values |-> Null]]
          /\ it = [ptr |-> Null, next |-> Null, over |-> CHOOSE l \in Lists : TRUE]
          /\ ret = Null
  /\ IF part = "bytes" THEN StrInit
     ELSE /\ mem = [a \in Cells |-> 0] /\ old = mem /\ call = NoCall
          /\ i = 0 /\ returned = FALSE /\ result = 0
  /\ IF part = "log" THEN LogInit
     ELSE format = <<>> /\ fmt = 1 /\ str = <<>> /\ taken = <<>>

MCNext ==
  \/ part = "list" /\ Next /\ UNCHANGED <<part, strvars, logvars>>
  \/ part = "bytes" /\ StrNext /\ UNCHANGED <<part, vars, logvars>>
  \/ part = "log" /\ vsnprintf /\ UNCHANGED <<part, vars, strvars>>

MCSpec == MCInit /\ [][MCNext]_allvars /\ WF_vars(LoopTurn)
-----------------------------------------------------------------------------
Abstract == INSTANCE Deques WITH q <- ListsOf(d), todo <- TodoOf(d, it), over <- it.over

(* The pointer operations of SingleDeque implement the sequence operations *)
(* of Deques: every call changes the lists, and returns, as Deques says,   *)
(* and a loop visits each value of the list once although its body relinks *)
(* the hook it stands on.                                                  *)
ImplementsDeques == Abstract!Spec
=============================================================================
