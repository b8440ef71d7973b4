------------------------------ MODULE GitSync -------------------------------
(***************************************************************************)
(* ProposeChange and EmergencySync.Apply of pkg/git/client.go: how a       *)
(* configuration gets into Git.                                            *)
(*                                                                         *)
(*   standard:   CreateCommit on a new branch, then CreatePullRequest      *)
(*   emergency:  FastForward on the base branch                            *)
(*                                                                         *)
(* The server calls them for several changes at once.  The branch is named *)
(* after the second in which ProposeChange begins.  The Git provider is    *)
(* the interface Client: any call may fail, before or after it has taken   *)
(* effect.  A change is known by its number, which is also the content it  *)
(* brings.                                                                 *)
(***************************************************************************)
EXTENDS Naturals, FiniteSets

CONSTANTS
    Changes,        \* the changes that are made
    Emergencies,    \* those that go to the base branch directly
    Original,       \* the content Git has at first
    NoContent,      \* a branch that does not exist
    Base,           \* name of the base branch
    MaxSeconds,     \* how long the clock runs (bounds the model)
    MaxErrors       \* budget of provider errors (bounds the model)

ASSUME EmergenciesAssumption == Emergencies \subseteq Changes
ASSUME GitBoundsAssumption == MaxSeconds \in Nat /\ MaxErrors \in Nat
ASSUME NamesAssumption ==
    /\ Base \notin 0..MaxSeconds
    /\ Original \notin Changes
    /\ NoContent \notin Changes \cup {Original}

(* A feature branch is known by the second in its name. *)
Branches == {Base} \cup 0..MaxSeconds

Content == Changes \cup {Original, NoContent}

PullRequest == [change : Changes, head : 0..MaxSeconds]
-----------------------------------------------------------------------------
VARIABLES
    now,        \* the current second
    files,      \* files[b]: the content of the file on branch b
    opened,     \* the pull requests that were opened
    merged,     \* those that were merged
    call,       \* call[c]: where the call for change c is
    branch,     \* branch[c]: the second ProposeChange has put in the name
    spent       \* how much of the budget of errors is used

gitVars == <<now, files, opened, merged, call, branch, spent>>

(* The types of the variables; only what was opened is merged. *)
GitTypeOK ==
    /\ now \in 0..MaxSeconds
    /\ files \in [Branches -> Content]
    /\ opened \subseteq PullRequest
    /\ merged \subseteq opened
    /\ call \in [Changes -> {"idle", "commit", "pr", "ok", "error"}]
    /\ branch \in [Changes -> 0..MaxSeconds]
    /\ spent \in 0..MaxErrors

GitInit ==
    /\ now = 0
    /\ files = [b \in Branches |-> IF b = Base THEN Original ELSE NoContent]
    /\ opened = {}
    /\ merged = {}
    /\ call = [c \in Changes |-> "idle"]
    /\ branch = [c \in Changes |-> 0]
    /\ spent = 0
-----------------------------------------------------------------------------
Goto(c, step) == call' = [call EXCEPT ![c] = step]

(* Mutant of Target: the commit goes to the base branch, as FastForward's. *)
TargetBase(c) == Base

(* The branch that CreateCommit writes. *)
Target(c) == branch[c]

(* ProposeChange begins and makes the name of its branch. *)
Propose(c) ==
    /\ call[c] = "idle"
    /\ c \notin Emergencies
    /\ branch' = [branch EXCEPT ![c] = now]
    /\ Goto(c, "commit")
    /\ UNCHANGED <<now, files, opened, merged, spent>>

(* Mutant of Fails: the error is dropped and the function goes on. *)
FailsUnseen(c, next) ==
    /\ spent < MaxErrors
    /\ spent' = spent + 1
    /\ Goto(c, next)

(* A provider call of c fails before next: the error is returned. *)
Fails(c, next) ==
    /\ spent < MaxErrors
    /\ spent' = spent + 1
    /\ Goto(c, "error")

(* CreateCommit writes the content to the branch, over what is there. *)
CreateCommit(c) ==
    /\ call[c] = "commit"
    /\ \/ /\ files' = [files EXCEPT ![Target(c)] = c]
          /\ \/ Goto(c, "pr") /\ UNCHANGED spent
             \/ Fails(c, "pr")
       \/ /\ Fails(c, "pr")
          /\ UNCHANGED files
    /\ UNCHANGED <<now, opened, merged, branch>>

(* CreatePullRequest; its result is ProposeChange's.  A second one for the same
   branch may be refused. *)
CreatePullRequest(c) ==
    /\ call[c] = "pr"
    /\ \/ /\ opened' = opened \cup {[change |-> c, head |-> branch[c]]}
          /\ \/ Goto(c, "ok") /\ UNCHANGED spent
             \/ Fails(c, "ok")
       \/ /\ Fails(c, "ok")
          /\ UNCHANGED opened
       \/ /\ \E r \in opened : r.head = branch[c]
          /\ Goto(c, "error")
          /\ UNCHANGED <<opened, spent>>
    /\ UNCHANGED <<now, files, merged, branch>>

(* EmergencySync.Apply: FastForward. *)
Apply(c) ==
    /\ call[c] = "idle"
    /\ c \in Emergencies
    /\ \/ /\ files' = [files EXCEPT ![Base] = c]
          /\ \/ Goto(c, "ok") /\ UNCHANGED spent
             \/ Fails(c, "ok")
       \/ /\ Fails(c, "ok")
          /\ UNCHANGED files
    /\ UNCHANGED <<now, opened, merged, branch>>

(* Someone merges a pull request; the base branch gets what its head holds. *)
Merge(r) ==
    /\ r \in opened \ merged
    /\ files[r.head] # NoContent
    /\ files' = [files EXCEPT ![Base] = files[r.head]]
    /\ merged' = merged \cup {r}
    /\ UNCHANGED <<now, opened, call, branch, spent>>

NextSecond ==
    /\ now < MaxSeconds
    /\ now' = now + 1
    /\ UNCHANGED <<files, opened, merged, call, branch, spent>>

GitStep ==
    \/ \E c \in Changes : CreateCommit(c) \/ CreatePullRequest(c)
    \/ \E r \in PullRequest : Merge(r)
    \/ NextSecond

GitNext == (\E c \in Changes : Propose(c) \/ Apply(c)) \/ GitStep

GitSpec == GitInit /\ [][GitNext]_gitVars
-----------------------------------------------------------------------------
(* c has begun a proposal. *)
Begun(c) == c \notin Emergencies /\ call[c] # "idle"

(* The proposals whose branch has the name of c's: c, and those that began in the
   same second (UniqueBranches). *)
SameName(c) == {d \in Changes : Begun(d) /\ branch[d] = branch[c]}

(* Who is told that a change is proposed finds it: there is a pull request for it,
   and what its branch holds is a proposal of that name: its own, whatever the
   other calls do, unless another one has the name. *)
ProposalShowsItsChange ==
    \A c \in Changes \ Emergencies :
        call[c] = "ok" =>
            /\ [change |-> c, head |-> branch[c]] \in opened
            /\ files[branch[c]] \in SameName(c)

(* The base branch holds a change only if it was an emergency or a pull request
   of its branch was merged, one that was opened for a proposal of that name. *)
BaseIsReviewed ==
    \A c \in Changes \ Emergencies :
        files[Base] = c =>
            \E r \in merged : r.head = branch[c] /\ r.change \in SameName(c)

(* ProposeChange is not atomic: a commit that no pull request shows is one whose
   call is under way or has returned an error. *)
OrphansAreReported ==
    \A b \in 0..MaxSeconds :
        files[b] # NoContent =>
            \/ \E r \in opened : r.head = b
            \/ call[files[b]] \in {"pr", "error"}
-----------------------------------------------------------------------------
(* Statements of the code's comments that it does not satisfy *)

(* pkg/git/client.go on the name of the branch: "Generate a unique branch name".
   Two proposals never have the same branch. *)
UniqueBranches == \A c \in Changes : Begun(c) => SameName(c) = {c}
=============================================================================
