--------------------------- MODULE CommandRunner ---------------------------
(***************************************************************************)
(* The cloudera_cmd decorator of sahara/plugins/cdh/cloudera_utils.py.     *)
(*                                                                         *)
(* A decorated method is a generator that yields Cloudera Manager          *)
(* commands.  The wrapper pulls the commands one at a time, blocks in      *)
(* cmd.wait() until the manager reports the command finished, and then     *)
(* inspects the result: a failed command raises HadoopProvisionError with  *)
(* the message of its first failed child, or with its own message when it *)
(* has no child list at all.  Because the generator is lazy, the next      *)
(* command is only issued after the previous one has been accepted.        *)
(*                                                                         *)
(* The command results are chosen by the manager, so they are inputs here: *)
(* every result a command can finish with is tried.                        *)
(***************************************************************************)
EXTENDS Naturals, Sequences

CONSTANTS
    Msgs,         \* result messages the manager can report
    MaxCmds,      \* bound on the commands one generator yields
    MaxChildren,  \* bound on the length of a command's child list
    None,         \* the Python None of ApiCommand.children
    NoErr         \* no HadoopProvisionError raised yet

ASSUME RunnerAssumption ==
    /\ MaxCmds \in Nat
    /\ MaxChildren \in Nat
    /\ Msgs # {}
    /\ NoErr \notin Msgs

VARIABLES
    results,  \* results of the commands waited on so far, in yield order
    phase,    \* where the wrapper is: pulling, waiting, returned or raised
    err       \* message carried by the HadoopProvisionError, once raised

vars == <<results, phase, err>>

(* An ApiCommand as returned by cmd.wait(): success flag, child list (a   *)
(* sequence of child commands, or None) and resultMessage.                *)
Child == [success : BOOLEAN, resultMessage : Msgs]

ChildLists == UNION {[1..n -> Child] : n \in 0..MaxChildren}

Result == [success : BOOLEAN, children : ChildLists \cup {None},
           resultMessage : Msgs]

Phases == {"pull", "wait", "returned", "raised"}

(***************************************************************************)
(* The check of lines 43-49 on one waited result.                          *)
(***************************************************************************)
FailedChildren(r) ==
    IF r.children = None THEN {}
    ELSE {i \in DOMAIN r.children : ~r.children[i].success}

\* Does the check raise on this result?
Raises(r) ==
    /\ ~r.success
    /\ r.children = None \/ FailedChildren(r) # {}

\* A children loop that keeps the last failed child instead of raising at
\* the first one.
RaisedMessageLastChild(r) ==
    IF r.children = None THEN r.resultMessage
    ELSE r.children[CHOOSE i \in FailedChildren(r) :
                        \A j \in FailedChildren(r) : i >= j].resultMessage

\* The message it raises with: the first failed child in list order, or the
\* command's own message when the child list is None.
RaisedMessage(r) ==
    IF r.children = None THEN r.resultMessage
    ELSE r.children[CHOOSE i \in FailedChildren(r) :
                        \A j \in FailedChildren(r) : i <= j].resultMessage

TypeOK ==
    /\ results \in Seq(Result)
    /\ Len(results) <= MaxCmds
    /\ phase \in Phases
    /\ err \in Msgs \cup {NoErr}

Init ==
    /\ results = <<>>
    /\ phase = "pull"
    /\ err = NoErr

\* A wrapper that pulls one command more than the generator may yield.
YieldPastBound ==
    /\ phase = "pull"
    /\ Len(results) <= MaxCmds
    /\ phase' = "wait"
    /\ UNCHANGED <<results, err>>

(* next(generator): the decorated method runs up to its next yield and    *)
(* submits one command to the manager (line 41).                          *)
Yield ==
    /\ phase = "pull"
    /\ Len(results) < MaxCmds
    /\ phase' = "wait"
    /\ UNCHANGED <<results, err>>

(* The generator is exhausted: the wrapper returns normally (line 41).    *)
Exhausted ==
    /\ phase = "pull"
    /\ phase' = "returned"
    /\ UNCHANGED <<results, err>>

(* cmd.wait() returns r and the check passes: pull the next command.      *)
WaitAccept(r) ==
    /\ phase = "wait"
    /\ ~Raises(r)
    /\ results' = Append(results, r)
    /\ phase' = "pull"
    /\ UNCHANGED err

(* cmd.wait() returns r and the check raises HadoopProvisionError.        *)
WaitRaise(r) ==
    /\ phase = "wait"
    /\ Raises(r)
    /\ results' = Append(results, r)
    /\ phase' = "raised"
    /\ err' = RaisedMessage(r)

Next ==
    \/ Yield
    \/ Exhausted
    \/ \E r \in Result : WaitAccept(r) \/ WaitRaise(r)

Spec == Init /\ [][Next]_vars

-----------------------------------------------------------------------------
(***************************************************************************)
(* Properties.                                                             *)
(***************************************************************************)

\* What the spec (section 4.1) asks of a failed command: its first failed
\* child's message when it has a failed child, its own message otherwise.
SpecMessage(r) ==
    LET failing == {i \in 1..MaxChildren :
                        /\ r.children # None
                        /\ i \in DOMAIN r.children
                        /\ ~r.children[i].success}
    IN  IF failing = {} THEN r.resultMessage
        ELSE r.children[CHOOSE i \in failing :
                            \A j \in failing : i <= j].resultMessage

(* When the wrapper raises, it raises on the last command it waited on,   *)
(* that command failed, and the error carries the message section 4.1     *)
(* prescribes (first failing child wins, own message when childless).     *)
(* This is about the children loop of cloudera_cmd, lines 43-49.          *)
RaisedWithSpecMessage ==
    phase = "raised" =>
        /\ results # <<>>
        /\ ~results[Len(results)].success
        /\ err = SpecMessage(results[Len(results)])

(* Section 4.1 / 8: a failed command that has no children makes the      *)
(* operation fail with the command's own message.  A child list that is   *)
(* present but empty counts as no children.  This is about the            *)
(* "children is not None" test of cloudera_cmd, line 44.                  *)
FailedChildlessCommandRaises ==
    \A i \in DOMAIN results :
        (~results[i].success /\ results[i].children \in {None, <<>>})
            => phase = "raised" /\ err = results[i].resultMessage
=============================================================================
