--------------------------- MODULE GitSyncProofs ----------------------------
(***************************************************************************)
(* Proofs about module GitSync: its invariants hold for any number of      *)
(* changes, seconds and provider errors.                                   *)
(*                                                                         *)
(* The three properties lean on one another through what a branch holds:   *)
(* a change stays on its branch until somebody else commits to it, and     *)
(* whoever does has the same second in its name.                           *)
(***************************************************************************)
EXTENDS GitSync, TLAPS

(* The name of c's branch is unique. *)
Alone(c) == \A d \in Changes \ {c} : Begun(d) => branch[d] # branch[c]

(* An emergency never goes through the steps of a proposal. *)
EmergenciesAreDirect ==
    \A c \in Emergencies : call[c] \in {"idle", "ok", "error"}

(* What is on a branch was committed by a call that has not failed before; on a
   feature branch it is a proposal with that name. *)
FilesAreCommitted ==
    \A b \in Branches :
        /\ files[b] \in Changes \ Emergencies =>
              call[files[b]] \in {"pr", "ok", "error"}
        /\ b # Base /\ files[b] # NoContent =>
              files[b] \in Changes \ Emergencies /\ branch[files[b]] = b

(* After its commit a proposal is on its branch, unless it shares the name. *)
CommittedIsThere ==
    \A c \in Changes \ Emergencies :
        call[c] \in {"pr", "ok"} =>
            /\ files[branch[c]] # NoContent
            /\ Alone(c) => files[branch[c]] = c

(* Pull requests are those of proposals that have got that far. *)
OpenedAreProposals ==
    \A r \in opened :
        /\ r.change \notin Emergencies
        /\ r.head = branch[r.change]
        /\ call[r.change] \in {"ok", "error"}

(* A proposal that was accepted has a pull request, and is on its branch unless
   it shares the name. *)
ProposalIsThere ==
    \A c \in Changes \ Emergencies :
        call[c] = "ok" =>
            /\ [change |-> c, head |-> branch[c]] \in opened
            /\ Alone(c) => files[branch[c]] = c

(* What the base branch holds came by a merge of its branch. *)
BaseIsMerged ==
    \A c \in Changes \ Emergencies :
        files[Base] = c =>
            \E r \in merged : r.head = branch[c] /\ (Alone(c) => r.change = c)

(* The inductive invariant. *)
GitIInv ==
    /\ GitTypeOK
    /\ EmergenciesAreDirect
    /\ FilesAreCommitted
    /\ CommittedIsThere
    /\ OpenedAreProposals
    /\ ProposalIsThere
    /\ BaseIsMerged
    /\ OrphansAreReported
-----------------------------------------------------------------------------
(* Names and contents of different kinds are different. *)
LEMMA GitNames ==
    /\ Base \notin 0..MaxSeconds
    /\ Branches = {Base} \cup 0..MaxSeconds
    /\ Original \notin Changes
    /\ NoContent \notin Changes
    /\ NoContent # Original
    /\ Emergencies \subseteq Changes
BY NamesAssumption, EmergenciesAssumption DEF Branches

LEMMA GitInitIInv == GitInit => GitIInv
BY GitNames, GitBoundsAssumption
   DEF GitInit, GitIInv, GitTypeOK, Content, EmergenciesAreDirect, FilesAreCommitted,
       CommittedIsThere, OpenedAreProposals, ProposalIsThere, BaseIsMerged,
       OrphansAreReported

(* A change that has begun keeps its name, and whoever is alone with a name was
   so before. *)
LEMMA AloneBefore ==
    ASSUME GitTypeOK,
           NEW c \in Changes, Begun(c),
           \A d \in Changes : Begun(d) => call'[d] # "idle" /\ branch'[d] = branch[d]
    PROVE  Alone(c)' => Alone(c)
BY DEF Alone, Begun

LEMMA ProposeIInv ==
    ASSUME GitIInv, NEW c \in Changes, Propose(c)
    PROVE  GitIInv'
<1>1. GitTypeOK'
  BY DEF GitIInv, Propose, Goto, GitTypeOK
<1>2. \A d \in Changes : d # c => call'[d] = call[d] /\ branch'[d] = branch[d]
  BY DEF GitIInv, GitTypeOK, Propose, Goto
<1>3. call'[c] = "commit" /\ call[c] = "idle" /\ c \notin Emergencies
  BY DEF GitIInv, GitTypeOK, Propose, Goto
<1>4. \A d \in Changes : Begun(d) => call'[d] # "idle" /\ branch'[d] = branch[d]
  BY <1>2, <1>3 DEF Begun
<1>5. \A d \in Changes : Begun(d) => (Alone(d)' => Alone(d))
  BY <1>4, AloneBefore DEF GitIInv
<1>6. UNCHANGED <<files, opened, merged>>
  BY DEF Propose
<1>7. EmergenciesAreDirect' /\ FilesAreCommitted' /\ OpenedAreProposals'
  <2>1. EmergenciesAreDirect'
    BY <1>2, <1>3, GitNames DEF GitIInv, EmergenciesAreDirect
  <2>2. FilesAreCommitted'
    BY <1>2, <1>3, <1>6 DEF GitIInv, FilesAreCommitted
  <2>3. OpenedAreProposals'
    BY <1>2, <1>3, <1>6 DEF GitIInv, OpenedAreProposals, GitTypeOK, PullRequest
  <2> QED BY <2>1, <2>2, <2>3
<1>8. CommittedIsThere' /\ ProposalIsThere'
  BY <1>2, <1>3, <1>5, <1>6 DEF GitIInv, CommittedIsThere, ProposalIsThere, Begun
<1>9. BaseIsMerged'
  BY <1>2, <1>3, <1>5, <1>6, GitNames DEF GitIInv, BaseIsMerged, FilesAreCommitted, Begun
<1>10. OrphansAreReported'
  BY <1>2, <1>3, <1>6, GitNames DEF GitIInv, OrphansAreReported, FilesAreCommitted
<1> QED BY <1>1, <1>7, <1>8, <1>9, <1>10 DEF GitIInv

(* Steps of the provider calls keep the names and never end up idle again. *)
LEMMA ContinueAlone ==
    ASSUME GitTypeOK, NEW c \in Changes, NEW step \in {"pr", "ok", "error"},
           call[c] # "idle", Goto(c, step), UNCHANGED branch
    PROVE  /\ \A d \in Changes : d # c => call'[d] = call[d]
           /\ call'[c] = step
           /\ \A d \in Changes : Begun(d) => (Alone(d)' <=> Alone(d))
<1>1. (\A d \in Changes : d # c => call'[d] = call[d]) /\ call'[c] = step
  BY DEF GitTypeOK, Goto
<1>2. \A d \in Changes : Begun(d) <=> Begun(d)'
  BY <1>1 DEF Begun
<1>3. QED
  BY <1>1, <1>2 DEF Alone

LEMMA CreateCommitIInv ==
    ASSUME GitIInv, NEW c \in Changes, CreateCommit(c)
    PROVE  GitIInv'
<1>1. PICK step \in {"pr", "error"} : Goto(c, step)
  BY DEF CreateCommit, Fails
<1>2. call[c] = "commit" /\ UNCHANGED <<branch, opened, merged>> /\ GitTypeOK
  BY DEF CreateCommit, GitIInv
<1>3. /\ \A d \in Changes : d # c => call'[d] = call[d]
      /\ call'[c] = step
      /\ \A d \in Changes : Begun(d) => (Alone(d)' <=> Alone(d))
  BY <1>1, <1>2, ContinueAlone
<1>4. c \notin Emergencies /\ branch[c] \in 0..MaxSeconds /\ branch[c] \in Branches /\ branch[c] # Base
  BY <1>2, GitNames DEF GitIInv, EmergenciesAreDirect, GitTypeOK
<1>5. \/ step = "error" /\ UNCHANGED files
      \/ files' = [files EXCEPT ![branch[c]] = c]
  BY <1>1, <1>2, <1>3 DEF CreateCommit, Target, Fails, Goto, GitTypeOK
<1>6. \A b \in Branches \ {branch[c]} : files'[b] = files[b]
  BY <1>4, <1>5 DEF GitTypeOK, GitIInv
<1>7. \/ step = "error" /\ UNCHANGED files
      \/ files'[branch[c]] = c
  BY <1>4, <1>5 DEF GitTypeOK, GitIInv
<1>8. GitTypeOK'
  <2>1. files' \in [Branches -> Content]
    BY <1>4, <1>5 DEF GitIInv, GitTypeOK, Content
  <2>2. call' \in [Changes -> {"idle", "commit", "pr", "ok", "error"}]
    BY <1>1 DEF GitIInv, GitTypeOK, Goto
  <2>3. spent' \in 0..MaxErrors
    BY GitBoundsAssumption DEF GitIInv, GitTypeOK, CreateCommit, Fails
  <2> QED
    BY <2>1, <2>2, <2>3 DEF CreateCommit, GitIInv, GitTypeOK
<1>9. EmergenciesAreDirect'
  BY <1>3, <1>4, GitNames DEF GitIInv, EmergenciesAreDirect
<1>10. FilesAreCommitted'
  BY <1>2, <1>3, <1>4, <1>6, <1>7, GitNames DEF GitIInv, FilesAreCommitted
<1>11. OpenedAreProposals'
  BY <1>2, <1>3 DEF GitIInv, OpenedAreProposals, GitTypeOK, PullRequest
<1>12. \A d \in Changes \ Emergencies :
         d # c /\ Begun(d) /\ Alone(d) => branch[d] # branch[c]
  BY <1>2, <1>4 DEF Alone, Begun
<1>13. \A d \in Changes \ Emergencies :
         d # c /\ Begun(d) =>
             /\ files[branch[d]] # NoContent => files'[branch[d]] # NoContent
             /\ Alone(d)' => files'[branch[d]] = files[branch[d]]
  BY <1>2, <1>3, <1>6, <1>7, <1>12, GitNames DEF GitTypeOK
<1>14. CommittedIsThere' /\ ProposalIsThere'
  <2>1. CommittedIsThere'
    BY <1>2, <1>3, <1>4, <1>7, <1>13, GitNames DEF GitIInv, CommittedIsThere, Begun
  <2>2. ProposalIsThere'
    BY <1>1, <1>2, <1>3, <1>13 DEF GitIInv, ProposalIsThere, Begun
  <2> QED
    BY <2>1, <2>2
<1>15. BaseIsMerged'
  BY <1>2, <1>3, <1>4, <1>6, GitNames DEF GitIInv, BaseIsMerged, FilesAreCommitted, Begun
<1>16. OrphansAreReported'
  BY <1>2, <1>3, <1>4, <1>6, <1>7, GitNames DEF GitIInv, OrphansAreReported, FilesAreCommitted
<1> QED
  BY <1>8, <1>9, <1>10, <1>11, <1>14, <1>15, <1>16 DEF GitIInv

LEMMA CreatePullRequestIInv ==
    ASSUME GitIInv, NEW c \in Changes, CreatePullRequest(c)
    PROVE  GitIInv'
<1> DEFINE r == [change |-> c, head |-> branch[c]]
<1>1. PICK step \in {"ok", "error"} : Goto(c, step)
  BY DEF CreatePullRequest, Fails
<1>2. call[c] = "pr" /\ UNCHANGED <<branch, files, merged>> /\ GitTypeOK
  BY DEF CreatePullRequest, GitIInv
<1>3. /\ \A d \in Changes : d # c => call'[d] = call[d]
      /\ call'[c] = step
      /\ \A d \in Changes : Begun(d) => (Alone(d)' <=> Alone(d))
  BY <1>1, <1>2, ContinueAlone
<1>4. c \notin Emergencies /\ r \in PullRequest
  BY <1>2, GitNames DEF GitIInv, EmergenciesAreDirect, GitTypeOK, PullRequest
<1>5. \/ opened' = opened \cup {r}
      \/ step = "error" /\ UNCHANGED opened
  BY <1>1, <1>2, <1>3 DEF CreatePullRequest, Fails, Goto, GitTypeOK
<1>6. GitTypeOK'
  <2>1. opened' \subseteq PullRequest /\ merged' \subseteq opened'
    BY <1>2, <1>4, <1>5 DEF GitTypeOK
  <2>2. call' \in [Changes -> {"idle", "commit", "pr", "ok", "error"}]
    BY <1>1, <1>2 DEF GitTypeOK, Goto
  <2>3. spent' \in 0..MaxErrors
    BY GitBoundsAssumption DEF GitIInv, GitTypeOK, CreatePullRequest, Fails
  <2> QED
    BY <2>1, <2>2, <2>3 DEF CreatePullRequest, GitIInv, GitTypeOK
<1>7. EmergenciesAreDirect' /\ FilesAreCommitted' /\ OpenedAreProposals'
  <2>1. EmergenciesAreDirect'
    BY <1>3, <1>4, GitNames DEF GitIInv, EmergenciesAreDirect
  <2>2. FilesAreCommitted'
    BY <1>2, <1>3 DEF GitIInv, FilesAreCommitted
  <2>3. OpenedAreProposals'
    BY <1>2, <1>3, <1>4, <1>5 DEF GitIInv, OpenedAreProposals, GitTypeOK, PullRequest
  <2> QED
    BY <2>1, <2>2, <2>3
<1>8. CommittedIsThere'
  BY <1>2, <1>3 DEF GitIInv, CommittedIsThere, Begun
<1>9. ProposalIsThere'
  BY <1>2, <1>3, <1>4, <1>5 DEF GitIInv, CommittedIsThere, ProposalIsThere, Begun
<1>10. BaseIsMerged'
  BY <1>2, <1>3, GitNames DEF GitIInv, BaseIsMerged, FilesAreCommitted, Begun
<1>11. OrphansAreReported'
  BY <1>2, <1>3, <1>4, <1>5, GitNames DEF GitIInv, OrphansAreReported, FilesAreCommitted
<1> QED
  BY <1>6, <1>7, <1>8, <1>9, <1>10, <1>11 DEF GitIInv

LEMMA ApplyIInv ==
    ASSUME GitIInv, NEW c \in Changes, Apply(c)
    PROVE  GitIInv'
<1>1. PICK step \in {"ok", "error"} : Goto(c, step)
  BY DEF Apply, Fails
<1>2. c \in Emergencies /\ UNCHANGED <<branch, opened, merged>> /\ GitTypeOK
  BY DEF Apply, GitIInv
<1>3. \A d \in Changes : d # c => call'[d] = call[d]
  BY <1>1, <1>2 DEF GitTypeOK, Goto
<1>4. call'[c] = step
  BY <1>1, <1>2 DEF GitTypeOK, Goto
<1>5. \A d \in Changes : (Begun(d)' <=> Begun(d)) /\ (Alone(d)' <=> Alone(d))
  <2>1. \A d \in Changes : Begun(d)' <=> Begun(d)
    BY <1>2, <1>3 DEF Begun
  <2> QED
    BY <1>2, <2>1 DEF Alone
<1>6. \/ UNCHANGED files
      \/ files' = [files EXCEPT ![Base] = c]
  BY DEF Apply
<1>7. /\ \A b \in 0..MaxSeconds : files'[b] = files[b]
      /\ files'[Base] \in {files[Base], c}
  BY <1>2, <1>6, GitNames DEF GitTypeOK
<1>8. GitTypeOK'
  <2>1. files' \in [Branches -> Content]
    BY <1>2, <1>6, GitNames DEF GitTypeOK, Content
  <2>2. call' \in [Changes -> {"idle", "commit", "pr", "ok", "error"}]
    BY <1>1, <1>2 DEF GitTypeOK, Goto
  <2>3. spent' \in 0..MaxErrors
    BY GitBoundsAssumption DEF GitIInv, GitTypeOK, Apply, Fails
  <2> QED
    BY <2>1, <2>2, <2>3 DEF Apply, GitIInv, GitTypeOK
<1>9. EmergenciesAreDirect'
  BY <1>3, <1>4, GitNames DEF GitIInv, EmergenciesAreDirect
<1>10. FilesAreCommitted'
  BY <1>2, <1>3, <1>7, GitNames DEF GitIInv, FilesAreCommitted
<1>11. OpenedAreProposals'
  BY <1>2, <1>3 DEF GitIInv, OpenedAreProposals, GitTypeOK, PullRequest
<1>12. CommittedIsThere' /\ ProposalIsThere'
  BY <1>2, <1>3, <1>5, <1>7 DEF GitIInv, CommittedIsThere, ProposalIsThere, GitTypeOK
<1>13. BaseIsMerged'
  BY <1>2, <1>5, <1>7 DEF GitIInv, BaseIsMerged
<1>14. OrphansAreReported'
  BY <1>2, <1>3, <1>7, GitNames DEF GitIInv, OrphansAreReported, FilesAreCommitted
<1> QED
  BY <1>8, <1>9, <1>10, <1>11, <1>12, <1>13, <1>14 DEF GitIInv

(* The base branch gets what the head holds; who is alone with that name opened
   the pull request. *)
LEMMA MergeIInv ==
    ASSUME GitIInv, NEW r \in PullRequest, Merge(r)
    PROVE  GitIInv'
<1>1. /\ r \in opened
      /\ files[r.head] # NoContent
      /\ files' = [files EXCEPT ![Base] = files[r.head]]
      /\ merged' = merged \cup {r}
      /\ UNCHANGED <<now, opened, call, branch, spent>>
  BY DEF Merge
<1>2. r.head \in 0..MaxSeconds /\ r.change \in Changes /\ GitTypeOK
  BY DEF PullRequest, GitIInv
<1>3. /\ \A b \in 0..MaxSeconds : files'[b] = files[b]
      /\ files'[Base] = files[r.head]
  BY <1>1, <1>2, GitNames DEF GitTypeOK
<1>4. files[r.head] \in Changes \ Emergencies /\ branch[files[r.head]] = r.head
  BY <1>1, <1>2, GitNames DEF GitIInv, FilesAreCommitted
<1>5. \A d \in Changes : (Begun(d)' <=> Begun(d)) /\ (Alone(d)' <=> Alone(d))
  BY <1>1 DEF Begun, Alone
<1>6. GitTypeOK'
  BY <1>1, <1>2, <1>4, GitNames DEF GitTypeOK, Content
<1>7. EmergenciesAreDirect' /\ OpenedAreProposals'
  BY <1>1 DEF GitIInv, EmergenciesAreDirect, OpenedAreProposals
<1>8. FilesAreCommitted'
  BY <1>1, <1>2, <1>3, <1>4, GitNames DEF GitIInv, FilesAreCommitted
<1>9. CommittedIsThere' /\ ProposalIsThere'
  BY <1>1, <1>2, <1>3, <1>5 DEF GitIInv, CommittedIsThere, ProposalIsThere, GitTypeOK
<1>10. Alone(files[r.head]) => r.change = files[r.head]
  BY <1>1, <1>2, <1>4 DEF GitIInv, OpenedAreProposals, Alone, Begun
<1>11. BaseIsMerged'
  BY <1>1, <1>3, <1>4, <1>5, <1>10 DEF GitIInv, BaseIsMerged
<1>12. OrphansAreReported'
  BY <1>1, <1>3 DEF GitIInv, OrphansAreReported
<1> QED
  BY <1>6, <1>7, <1>8, <1>9, <1>11, <1>12 DEF GitIInv

LEMMA IdleIInv ==
    ASSUME GitIInv, now' \in 0..MaxSeconds,
           UNCHANGED <<files, opened, merged, call, branch, spent>>
    PROVE  GitIInv'
BY DEF GitIInv, GitTypeOK, EmergenciesAreDirect, FilesAreCommitted, CommittedIsThere,
       OpenedAreProposals, ProposalIsThere, BaseIsMerged, OrphansAreReported,
       Alone, Begun

LEMMA GitNextIInv == GitIInv /\ [GitNext]_gitVars => GitIInv'
<1> SUFFICES ASSUME GitIInv, [GitNext]_gitVars PROVE GitIInv'
  OBVIOUS
<1>1. CASE \E c \in Changes : Propose(c) \/ Apply(c)
  BY <1>1, ProposeIInv, ApplyIInv
<1>2. CASE \E c \in Changes : CreateCommit(c) \/ CreatePullRequest(c)
  BY <1>2, CreateCommitIInv, CreatePullRequestIInv
<1>3. CASE \E r \in PullRequest : Merge(r)
  BY <1>3, MergeIInv
<1>4. CASE NextSecond
  <2>1. now' \in 0..MaxSeconds
    BY <1>4, GitBoundsAssumption DEF NextSecond, GitIInv, GitTypeOK
  <2> QED
    BY <1>4, <2>1, IdleIInv DEF NextSecond
<1>5. CASE UNCHANGED gitVars
  BY <1>5, IdleIInv DEF gitVars, GitIInv, GitTypeOK
<1> QED
  BY <1>1, <1>2, <1>3, <1>4, <1>5 DEF GitNext, GitStep
-----------------------------------------------------------------------------
(* The strengthened invariant holds in every reachable state. *)
THEOREM GitInvariant == GitSpec => []GitIInv
  BY GitInitIInv, GitNextIInv, PTL DEF GitSpec

(* Type correctness: only what was opened is merged, and a name is a second of
   the clock. *)
THEOREM GitTypeCorrect == GitSpec => []GitTypeOK
<1>1. GitIInv => GitTypeOK
  BY DEF GitIInv
<1> QED
  BY <1>1, GitInvariant, PTL

(* What ProposeChange answers is true: there is a pull request for the change, and
   its branch holds it or a proposal that began in the same second. *)
THEOREM ProposalsShow == GitSpec => []ProposalShowsItsChange
<1>1. ASSUME GitIInv, NEW c \in Changes \ Emergencies, call[c] = "ok"
      PROVE  /\ [change |-> c, head |-> branch[c]] \in opened
             /\ files[branch[c]] \in SameName(c)
  <2>1. branch[c] \in Branches \ {Base} /\ files[branch[c]] # NoContent
    BY <1>1, GitNames DEF GitIInv, GitTypeOK, CommittedIsThere
  <2>2. /\ files[branch[c]] \in Changes \ Emergencies
        /\ branch[files[branch[c]]] = branch[c]
        /\ call[files[branch[c]]] \in {"pr", "ok", "error"}
    BY <1>1, <2>1 DEF GitIInv, FilesAreCommitted
  <2>3. [change |-> c, head |-> branch[c]] \in opened
    BY <1>1 DEF GitIInv, ProposalIsThere
  <2>4. QED
    BY <2>2, <2>3 DEF SameName, Begun
<1>2. GitIInv => ProposalShowsItsChange
  BY <1>1 DEF ProposalShowsItsChange
<1>3. QED
  BY <1>2, GitInvariant, PTL

(* Nothing gets to the base branch around the review but emergencies: what is there
   came by a merge of a pull request that was opened for it, or for a proposal that
   began in the same second. *)
THEOREM ReviewedBase == GitSpec => []BaseIsReviewed
<1>1. ASSUME GitIInv, NEW c \in Changes \ Emergencies, files[Base] = c
      PROVE  \E r \in merged : r.head = branch[c] /\ r.change \in SameName(c)
  <2>1. PICK r \in merged : r.head = branch[c]
    BY <1>1 DEF GitIInv, BaseIsMerged
  <2>2. r \in opened /\ r.change \in Changes
    BY <1>1 DEF GitIInv, GitTypeOK, PullRequest
  <2>3. /\ r.change \notin Emergencies /\ branch[r.change] = branch[c]
        /\ call[r.change] \in {"ok", "error"}
    BY <1>1, <2>1, <2>2 DEF GitIInv, OpenedAreProposals
  <2>4. QED
    BY <2>1, <2>2, <2>3 DEF SameName, Begun
<1>2. GitIInv => BaseIsReviewed
  BY <1>1 DEF BaseIsReviewed
<1>3. QED
  BY <1>2, GitInvariant, PTL

(* A commit without a pull request belongs to a call that is under way or was
   answered with an error. *)
THEOREM OrphansReported == GitSpec => []OrphansAreReported
<1>1. GitIInv => OrphansAreReported
  BY DEF GitIInv
<1> QED
  BY <1>1, GitInvariant, PTL
=============================================================================
