--------------------------- MODULE ReleaseProofs ---------------------------
(***************************************************************************)
(* What holds of the release script for any versions, any form of the file *)
(* and any number of failures.                                             *)
(***************************************************************************)
EXTENDS Release, TLAPS

Commits == [file : Files(Released), by : {"us", "others"}]

LEMMA LastInSet ==
    ASSUME NEW S, NEW h \in Seq(S), h # <<>>
    PROVE  Last(h) \in S
BY DEF Last

LEMMA LastOfAppend ==
    ASSUME NEW S, NEW h \in Seq(S), NEW c \in S
    PROVE  /\ Append(h, c) \in Seq(S) /\ Append(h, c) # <<>>
           /\ Last(Append(h, c)) = c
BY DEF Last

LEMMA LastCommit ==
    ASSUME NEW h \in Histories
    PROVE  Last(h) \in Commits /\ Last(h).file \in Files(Released)
<1>1. Last(h) \in Commits
    BY LastInSet DEF Histories, Commits
<1> QED
    BY <1>1 DEF Commits

LEMMA LastAppended ==
    ASSUME NEW h \in Histories, NEW c \in Commits
    PROVE  Append(h, c) \in Histories /\ Last(Append(h, c)) = c
BY LastOfAppend DEF Histories, Commits

LEMMA OneMoreTag ==
    ASSUME NEW refs, Tags(refs), NEW v \in Versions, NEW h \in Histories
    PROVE  Tags(Onto(v, h, refs))
BY DEF Tags, Onto

-----------------------------------------------------------------------------
(***************************************************************************)
(* The inductive invariant.  From the check of the tree on, version.go is  *)
(* the committed one; from the guard on, it holds the tag's version; and   *)
(* the flag tells the trap on which side of the commit the script is.      *)
(***************************************************************************)
Past == {"fetch", "tag", "behind", "file", "trap", "sed", "truncate"}

TreeInv ==
    /\ pc \in Past \cup {"committed", "tagit"} => Clean
    /\ pc = "commit" => index = work
    /\ pc \in {"verify", "add", "commit"} => work \in Files(Released)
    /\ Armed => (committed <=> pc = "tagit")
    /\ pc \in {"idle", "branch", "clean"} /\ ~untidy => Clean
    /\ pc \notin {"idle", "branch", "clean"} => work.form # "edited"

Named(refs) == \A v \in DOMAIN refs : Last(refs[v]).file.version = v

VersionInv ==
    /\ pc # "idle" => version \in Versions
    /\ pc \in {"add", "commit"} => work.version = version
    /\ pc \in {"committed", "tagit"} => HEAD.version = version
    /\ advised # 0 => advised \in DOMAIN tags
    /\ Named(tags) /\ Named(published)

IInv == TypeOK /\ TreeInv /\ VersionInv

-----------------------------------------------------------------------------
(***************************************************************************)
(* Every step keeps the types.                                             *)
(***************************************************************************)
LEMMA FilesLarger ==
    /\ Files(Released) \subseteq Files(Released \cup {"edited"})
    /\ Files(Released \cup {"edited"}) \subseteq Files(Released \cup {"edited", "partial"})
BY DEF Files

LEMMA FileTyped ==
    /\ \A v \in Versions \cup {0} :
          \A form \in Released : File(v, form) \in Files(Released)
    /\ File(0, "partial") \in Files(Released \cup {"edited", "partial"})
    /\ \A file \in Files(Released) :
          /\ file.version \in Versions \cup {0} /\ file.form \in Released
          /\ File(file.version, "edited") \in Files(Released \cup {"edited"})
BY DEF Files, File

LEMMA TypeInit == Init => TypeOK
<1> SUFFICES ASSUME Init PROVE TypeOK
    OBVIOUS
<1> USE ReleaseAssumption DEF Init, TypeOK
<1>1. First \in Histories
    BY DEF First, Histories, Files, Released, Commit, File
<1>2. File(0, "plain") \in Files(Released)
    BY DEF File, Files, Released
<1>3. Tags(tags) /\ Tags(published)
    BY DEF Tags
<1> QED
    <2>1. index \in Files(Released \cup {"edited"})
               /\ work \in Files(Released \cup {"edited", "partial"})
        BY <1>2, FilesLarger
    <2>2. onMain \in BOOLEAN /\ committed \in BOOLEAN /\ untidy \in BOOLEAN
        OBVIOUS
    <2> QED
        BY <1>1, <1>2, <1>3, <2>1, <2>2

LEMMA TypeExit ==
    ASSUME TypeOK, pc # "idle", Exit
    PROVE  /\ pc' \in {"idle"} /\ version' = version /\ tmp' = tmp
           /\ committed' = committed /\ advised' = advised
           /\ index' \in Files(Released \cup {"edited"})
           /\ work' \in Files(Released \cup {"edited", "partial"})
<1>1. HEAD \in Files(Released)
    BY LastCommit DEF TypeOK, HEAD
<1> QED
    BY <1>1, FilesLarger DEF TypeOK, Exit, Goto, Restored

(* What others push. *)
LEMMA OthersTyped ==
    ASSUME TypeOK, Others
    PROVE  /\ origin' \in Histories /\ Tags(published') /\ mishaps' \in 0..MaxMishaps
           /\ UNCHANGED <<repo, script, untidy>>
<1> USE ReleaseAssumption DEF TypeOK
<1>1. Last(origin).file.version \in Versions \cup {0}
    BY LastCommit, FileTyped
<1>2. ASSUME NEW v \in Versions \cup {0}, NEW form \in Released
      PROVE  Append(origin, Commit(File(v, form), "others")) \in Histories
    <2>1. Commit(File(v, form), "others") \in Commits
        BY FileTyped DEF Commits, Commit
    <2> QED
        BY <2>1, LastAppended
<1>3. mishaps' \in 0..MaxMishaps /\ UNCHANGED <<repo, script, untidy>>
    BY DEF Others
<1>4. ASSUME NEW form \in Forms,
             origin' = Append(origin, Commit(File(Last(origin).file.version, form), "others")),
             UNCHANGED published
      PROVE  origin' \in Histories /\ Tags(published')
    BY <1>1, <1>2, <1>4 DEF Released
<1>5. ASSUME NEW v \in Versions, origin' = Append(origin, Commit(File(v, "plain"), "others")),
             published' = Onto(v, origin', published)
      PROVE  origin' \in Histories /\ Tags(published')
    <2>1. origin' \in Histories
        BY <1>2, <1>5 DEF Released
    <2> QED
        BY <2>1, <1>5, OneMoreTag
<1> QED
    BY <1>3, <1>4, <1>5 DEF Others

LEMMA TypeStep == IInv /\ [Next]_vars => TypeOK'
<1> SUFFICES ASSUME IInv, [Next]_vars PROVE TypeOK'
    OBVIOUS
<1> USE ReleaseAssumption, FilesLarger DEF IInv, TypeOK, repo, remote, script
<1>h. HEAD \in Files(Released) /\ Last(origin).file \in Files(Released)
    BY LastCommit DEF HEAD
<1>1. ASSUME NEW v \in Wanted, Start(v) PROVE TypeOK'
    BY <1>1 DEF Start
<1>2. CASE CheckBranch \/ CheckClean \/ CheckTag \/ CheckBehind \/ CheckFile
    BY <1>2 DEF CheckBranch, CheckClean, CheckTag, CheckBehind, CheckFile, Check, Goto
<1>3. CASE Fetch
    <2>1. Tags(tags)'
        BY <1>3 DEF Fetch, Tags
    <2> QED
        BY <1>3, <2>1 DEF Fetch, Goto
<1>4. CASE SetTrap
    BY <1>4 DEF SetTrap
<1>5. CASE Sed
    <2>1. work \in Files(Released)
        BY <1>5, <1>h DEF Sed, TreeInv, Past, Clean
    <2>2. File(version, "plain") \in Files(Released)
        BY FileTyped DEF Released
    <2> QED
        BY <1>5, <2>1, <2>2 DEF Sed
<1>6. CASE Truncate
    BY <1>6, FileTyped DEF Truncate, Goto
<1>7. CASE Write
    BY <1>7 DEF Write, Goto
<1>8. CASE Verify
    <2>1. mishaps' \in 0..MaxMishaps
        BY <1>8 DEF Verify, Guard, Verified
    <2>2. UNCHANGED <<onMain, main, tags, tracking, remote, untidy, version, tmp, committed, advised>>
        BY <1>8 DEF Verify, Exit, Goto
    <2>3. pc' \in {"add", "idle"}
        BY <1>8 DEF Verify, Exit, Goto
    <2>4. CASE Exit
        BY <2>1, <2>2, <2>3, <2>4, <1>8, TypeExit DEF Verify
    <2>5. CASE UNCHANGED repo
        BY <2>1, <2>2, <2>3, <2>5
    <2> QED
        BY <1>8, <2>4, <2>5 DEF Verify
<1>9. CASE Add
    <2>1. work \in Files(Released)
        BY <1>9 DEF Add, TreeInv
    <2> QED
        BY <1>9, <2>1 DEF Add, Goto
<1>10. CASE MakeCommit
    <2>1. CASE index = HEAD
        BY <2>1, <1>10, TypeExit DEF MakeCommit, Exit
    <2>2. CASE index # HEAD
        <3>1. Commit(index, "us") \in Commits
            BY <1>10 DEF MakeCommit, TreeInv, Commits, Commit
        <3>2. main' \in Histories
            BY <3>1, <2>2, <1>10, LastAppended DEF MakeCommit
        <3> QED
            BY <3>2, <2>2, <1>10 DEF MakeCommit, Goto
    <2> QED
        BY <2>1, <2>2
<1>11. CASE Committed
    BY <1>11 DEF Committed
<1>12. CASE TagIt
    <2>1. Tags(tags')
        BY <1>12, OneMoreTag DEF TagIt, VersionInv
    <2> QED
        BY <1>12, <2>1 DEF TagIt, VersionInv
<1>13. CASE StepFails
    BY <1>13, TypeExit DEF StepFails, Exit
<1>14. CASE Killed
    BY <1>14 DEF Killed, Goto
<1>15. CASE Edit
    <2>1. work' \in Files(Released \cup {"edited"})
        BY <1>15, <1>h, FileTyped DEF Edit
    <2>2. index' \in {index, work'} /\ mishaps' = mishaps + 1 /\ mishaps < MaxMishaps
        BY <1>15 DEF Edit
    <2>3. mishaps' \in 0..MaxMishaps /\ work' \in Files(Released \cup {"edited", "partial"})
        BY <2>1, <2>2 DEF Files
    <2>4. index' \in Files(Released \cup {"edited"})
        BY <2>1, <2>2
    <2>5. UNCHANGED <<onMain, main, tags, tracking, remote, script>> /\ untidy' \in BOOLEAN
        BY <1>15 DEF Edit
    <2> QED
        BY <2>1, <2>3, <2>4, <2>5
<1>16. CASE Discard \/ Pull \/ ResetToOrigin
    <2>1. main' \in Histories /\ tracking' \in Histories
        BY <1>16 DEF Discard, Pull, ResetToOrigin, Checkout
    <2>2. index' \in Files(Released) /\ work' = index'
        BY <1>16, <1>h DEF Discard, Pull, ResetToOrigin, Checkout, HEAD
    <2>3. advised' \in Versions \cup {0} /\ untidy' \in BOOLEAN
        BY <1>16 DEF Discard, Pull, ResetToOrigin
    <2>4. UNCHANGED <<onMain, tags, remote, pc, version, tmp, committed, mishaps>>
        BY <1>16 DEF Discard, Pull, ResetToOrigin
    <2> QED
        BY <2>1, <2>2, <2>3, <2>4
<1>17. CASE Leave \/ Return
    <2>1. mishaps' \in 0..MaxMishaps
        BY <1>17 DEF Leave, Return
    <2>3. onMain' \in BOOLEAN
        BY <1>17, Zenon DEF Leave, Return
    <2>2. UNCHANGED <<main, index, work, tags, tracking, remote, script, untidy>>
        BY <1>17 DEF Leave, Return
    <2> QED
        BY <2>1, <2>2, <2>3
<1>18. ASSUME NEW v \in Wanted, DeleteTag(v) PROVE TypeOK'
    <2>1. Tags(tags')
        BY <1>18 DEF DeleteTag, Tags
    <2> QED
        BY <1>18, <2>1 DEF DeleteTag
<1>19. CASE Push
    <2>1. tags[advised] \in Histories
        BY <1>19 DEF Push, VersionInv, Tags
    <2>2. Tags(published')
        BY <1>19, <2>1, OneMoreTag DEF Push
    <2> QED
        BY <1>19, <2>2 DEF Push
<1>20. CASE Others
    BY <1>20, <1>h, OthersTyped DEF Others
<1>21. CASE UNCHANGED vars
    BY <1>21 DEF vars
<1> QED
    BY <1>1, <1>2, <1>3, <1>4, <1>5, <1>6, <1>7, <1>8, <1>9, <1>10, <1>11, <1>12, <1>13,
       <1>14, <1>15, <1>16, <1>17, <1>18, <1>19, <1>20, <1>21 DEF Next, ScriptStep

-----------------------------------------------------------------------------
(***************************************************************************)
(* Every step keeps the tree.                                              *)
(***************************************************************************)
LEMMA HeadTyped == TypeOK => HEAD \in Files(Released) /\ HEAD.form # "edited"
<1> SUFFICES ASSUME TypeOK PROVE HEAD \in Files(Released) /\ HEAD.form # "edited"
    OBVIOUS
<1>1. HEAD \in Files(Released)
    BY LastCommit DEF TypeOK, HEAD
<1> QED
    BY <1>1 DEF Files, Released

(* Wherever the script ends, the trap leaves the tree as it was checked. *)
LEMMA TreeExit ==
    ASSUME IInv, pc # "idle", Exit
    PROVE  TreeInv'
<1>1. HEAD' = HEAD
    BY DEF Exit, HEAD
<1>2. CASE Armed /\ ~committed
    BY <1>1, <1>2 DEF Exit, Goto, Restored, TreeInv, Clean, Past, Armed
<1>3. CASE ~(Armed /\ ~committed)
    <2>1. pc \in {"branch", "clean"} \/ pc \in Past \cup {"tagit"}
        BY <1>3 DEF IInv, TypeOK, TreeInv, Armed, Past
    <2>2. ~untidy => Clean
        BY <2>1 DEF IInv, TreeInv, Past
    <2> QED
        BY <1>1, <1>3, <2>2 DEF Exit, Goto, TreeInv, Clean, Past, Armed
<1> QED
    BY <1>2, <1>3

(* What is committed is what was staged. *)
LEMMA CommitsIndex ==
    ASSUME TypeOK, Commit(index, "us") \in Commits, main' = Append(main, Commit(index, "us"))
    PROVE  HEAD' = index
<1>1. Last(main') = Commit(index, "us")
    BY LastAppended DEF TypeOK
<1> QED
    BY <1>1 DEF HEAD, Commit

LEMMA TreeStep == IInv /\ [Next]_vars => TreeInv'
<1> SUFFICES ASSUME IInv, [Next]_vars PROVE TreeInv'
    OBVIOUS
<1>h. HEAD \in Files(Released) /\ HEAD.form # "edited"
    BY HeadTyped DEF IInv
<1> USE DEF IInv, TreeInv, Clean, HEAD, Past, Armed, repo, remote, script
<1>1. ASSUME NEW v \in Wanted, Start(v) PROVE TreeInv'
    BY <1>1 DEF Start
<1>2. CASE CheckBranch \/ CheckTag \/ CheckBehind \/ CheckFile
    BY <1>2 DEF CheckBranch, CheckTag, CheckBehind, CheckFile, Check, Goto
<1>3. CASE CheckClean
    BY <1>3, <1>h DEF CheckClean, Check, Goto
<1>4. CASE Fetch
    BY <1>4 DEF Fetch, Goto
<1>5. CASE SetTrap
    BY <1>5 DEF SetTrap
<1>6. CASE Sed
    BY <1>6 DEF Sed
<1>7. CASE Truncate
    BY <1>7 DEF Truncate, Goto, File
<1>8. CASE Write
    <2>1. tmp \in Files(Released) /\ tmp.form # "edited"
        BY DEF TypeOK, Files, Released
    <2> QED
        BY <1>8, <2>1 DEF Write, Goto
<1>9. CASE Verify
    <2>1. CASE Exit
        BY <2>1, <1>9, TreeExit DEF Verify
    <2>2. CASE Goto("add") /\ UNCHANGED repo
        BY <2>2, <1>9 DEF Verify, Goto
    <2> QED
        BY <1>9, <2>1, <2>2 DEF Verify
<1>10. CASE Add
    BY <1>10 DEF Add, Goto, NothingToCommit
<1>11. CASE MakeCommit
    <2>1. CASE index = HEAD
        BY <2>1, <1>11, TreeExit DEF MakeCommit
    <2>2. CASE index # HEAD
        <3>1. Commit(index, "us") \in Commits
            BY <1>11 DEF MakeCommit, Commits, Commit
        <3>2. HEAD' = index
            BY <3>1, <2>2, <1>11, CommitsIndex DEF MakeCommit
        <3>3. pc' = "committed" /\ UNCHANGED <<index, work, committed>> /\ index = work
              /\ work.form # "edited" /\ ~committed
            BY <2>2, <1>11 DEF MakeCommit, Goto
        <3> QED
            BY <3>2, <3>3
    <2> QED
        BY <2>1, <2>2
<1>12. CASE Committed
    BY <1>12 DEF Committed
<1>13. CASE TagIt
    BY <1>13 DEF TagIt
<1>14. CASE StepFails
    BY <1>14, TreeExit DEF StepFails
<1>15. CASE Killed
    BY <1>15 DEF Killed, Goto
<1>16. CASE Edit
    BY <1>16 DEF Edit
<1>17. CASE Discard \/ Pull \/ ResetToOrigin
    BY <1>17 DEF Discard, Pull, ResetToOrigin, Checkout
<1>18. CASE Leave \/ Return
    BY <1>18 DEF Leave, Return
<1>19. ASSUME NEW v \in Wanted, DeleteTag(v) PROVE TreeInv'
    BY <1>19 DEF DeleteTag
<1>20. CASE Push
    BY <1>20 DEF Push
<1>21. CASE Others
    BY <1>21 DEF Others
<1>22. CASE UNCHANGED vars
    BY <1>22 DEF vars
<1> QED
    BY <1>1, <1>2, <1>3, <1>4, <1>5, <1>6, <1>7, <1>8, <1>9, <1>10, <1>11, <1>12, <1>13,
       <1>14, <1>15, <1>16, <1>17, <1>18, <1>19, <1>20, <1>21, <1>22 DEF Next, ScriptStep

-----------------------------------------------------------------------------
(***************************************************************************)
(* Every step keeps the versions.                                          *)
(***************************************************************************)
LEMMA OneMoreName ==
    ASSUME NEW refs, Named(refs), NEW v, NEW h, Last(h).file.version = v
    PROVE  Named(Onto(v, h, refs))
BY DEF Named, Onto

(* What others tag has the version of the tag. *)
LEMMA OthersName ==
    ASSUME IInv, Others
    PROVE  Named(published')
<1> USE DEF IInv, VersionInv
<1>1. ASSUME NEW v \in Versions, origin' = Append(origin, Commit(File(v, "plain"), "others")),
             published' = Onto(v, origin', published)
      PROVE  Named(published')
    <2>1. Commit(File(v, "plain"), "others") \in Commits
        BY FileTyped DEF Commits, Commit, Released
    <2>2. Last(origin').file.version = v
        BY <1>1, <2>1, LastAppended DEF TypeOK, Commit, File
    <2> QED
        BY <1>1, <2>2, OneMoreName
<1> QED
    BY <1>1 DEF Others

LEMMA VersionStep == IInv /\ [Next]_vars => VersionInv'
<1> SUFFICES ASSUME IInv, [Next]_vars PROVE VersionInv'
    OBVIOUS
<1> USE ReleaseAssumption DEF IInv, VersionInv, HEAD, repo, remote, script
<1>1. ASSUME NEW v \in Wanted, Start(v) PROVE VersionInv'
    BY <1>1 DEF Start
<1>2. CASE CheckBranch \/ CheckClean \/ CheckTag \/ CheckBehind \/ CheckFile
    BY <1>2 DEF CheckBranch, CheckClean, CheckTag, CheckBehind, CheckFile, Check, Goto
<1>3. CASE Fetch
    <2>1. Named(tags') /\ DOMAIN tags \subseteq DOMAIN tags'
        BY <1>3 DEF Fetch, Named
    <2> QED
        BY <1>3, <2>1 DEF Fetch, Goto
<1>4. CASE SetTrap \/ Sed
    BY <1>4 DEF SetTrap, Sed
<1>5. CASE Truncate \/ Write
    BY <1>5 DEF Truncate, Write, Goto
<1>6. CASE Verify
    <2>1. pc' = "add" => work.version = version
        BY <1>6 DEF Verify, Exit, Goto, Verified, Guard
    <2>2. pc' \in {"add", "idle"} /\ UNCHANGED <<main, tags, published, version, advised>>
        BY <1>6 DEF Verify, Exit, Goto
    <2>3. pc' = "add" => work' = work
        BY <1>6 DEF Verify, Exit, Goto
    <2> QED
        BY <1>6, <2>1, <2>2, <2>3 DEF Verify
<1>7. CASE Add
    BY <1>7 DEF Add, Goto, NothingToCommit
<1>8. CASE MakeCommit
    <2>1. CASE index = HEAD
        BY <2>1, <1>8 DEF MakeCommit, Exit, Goto
    <2>2. CASE index # HEAD
        <3>1. Commit(index, "us") \in Commits /\ index.version = version
            BY <1>8 DEF MakeCommit, TreeInv, Commits, Commit
        <3>2. HEAD' = index
            BY <3>1, <2>2, <1>8, CommitsIndex DEF MakeCommit
        <3> QED
            BY <3>1, <3>2, <2>2, <1>8 DEF MakeCommit, Goto
    <2> QED
        BY <2>1, <2>2
<1>9. CASE Committed
    BY <1>9 DEF Committed
<1>10. CASE TagIt
    <2>1. Named(tags') /\ version \in DOMAIN tags'
        BY <1>10, OneMoreName DEF TagIt, Onto
    <2> QED
        BY <1>10, <2>1 DEF TagIt
<1>11. CASE StepFails
    BY <1>11 DEF StepFails, Exit, Goto
<1>12. CASE Killed
    BY <1>12 DEF Killed, Goto
<1>13. CASE Edit
    BY <1>13 DEF Edit
<1>14. CASE Discard \/ Pull \/ ResetToOrigin
    BY <1>14 DEF Discard, Pull, ResetToOrigin, Checkout
<1>15. CASE Leave \/ Return
    BY <1>15 DEF Leave, Return
<1>16. ASSUME NEW v \in Wanted, DeleteTag(v) PROVE VersionInv'
    <2>1. Named(tags') /\ (advised # 0 => advised \in DOMAIN tags')
        BY <1>16 DEF DeleteTag, Named
    <2> QED
        BY <1>16, <2>1 DEF DeleteTag
<1>17. CASE Push
    <2>1. Named(published')
        BY <1>17, OneMoreName DEF Push, Named
    <2> QED
        BY <1>17, <2>1 DEF Push
<1>18. CASE Others
    BY <1>18, OthersName DEF Others
<1>19. CASE UNCHANGED vars
    BY <1>19 DEF vars
<1> QED
    BY <1>1, <1>2, <1>3, <1>4, <1>5, <1>6, <1>7, <1>8, <1>9, <1>10, <1>11, <1>12, <1>13,
       <1>14, <1>15, <1>16, <1>17, <1>18, <1>19 DEF Next, ScriptStep

-----------------------------------------------------------------------------
(***************************************************************************)
(* The theorems.                                                           *)
(***************************************************************************)
LEMMA InvInit == Init => IInv
<1> SUFFICES ASSUME Init PROVE IInv
    OBVIOUS
<1>1. TypeOK
    BY TypeInit
<1>2. TreeInv
    <2>1. HEAD = File(0, "plain")
        BY DEF Init, HEAD, First, Last, Commit
    <2> QED
        BY <2>1 DEF Init, TreeInv, Clean, Past, Armed
<1>3. VersionInv
    BY DEF Init, VersionInv, Named
<1> QED
    BY <1>1, <1>2, <1>3 DEF IInv

LEMMA InvAlways == Spec => []IInv
<1>1. IInv /\ [Next]_vars => IInv'
    BY TypeStep, TreeStep, VersionStep DEF IInv
<1> QED
    BY <1>1, InvInit, PTL DEF Spec

(* The types hold: nothing partial or edited is ever committed (release.sh,*)
(* its guards and its trap).                                               *)
THEOREM TypesHold == Spec => []TypeOK
BY InvAlways, PTL DEF IInv

(* A run of the script that was not killed ends with version.go as it is   *)
(* in HEAD, whichever step failed (the EXIT trap).                         *)
THEOREM TreeIsRestored == Spec => []TreeRestored
<1>1. IInv => TreeRestored
    BY DEF IInv, TreeInv, TreeRestored
<1> QED
    BY <1>1, InvAlways, PTL

(* A tag names the version of the constant in its commit, even if the      *)
(* guard is skipped or the constant is not found (verify-version.sh).      *)
THEOREM TagsNameVersions == Spec => []TagNamesVersion
<1>1. IInv => TagNamesVersion
    BY DEF IInv, TypeOK, Tags, Histories, VersionInv, Named, TagNamesVersion
<1> QED
    BY <1>1, InvAlways, PTL

(* No step of the script changes what the maintainer had edited before it  *)
(* ran (the clean-tree guard and the restore).                             *)
THEOREM WorkIsKept == Spec => NeverDiscardsWork
<1>1. IInv /\ [Next]_vars => [pc # "idle" /\ work.form = "edited" => work' = work /\ index' = index]_vars
  <2> SUFFICES ASSUME IInv, Next, pc # "idle", work.form = "edited"
               PROVE  work' = work /\ index' = index
      BY DEF vars
  <2>1. pc \in {"branch", "clean"}
      BY DEF IInv, TreeInv
  <2> QED
      BY <2>1 DEF Next, ScriptStep, Start, DeleteTag, CheckBranch, CheckClean, Fetch, CheckTag,
         CheckBehind, CheckFile, Check, SetTrap, Sed, Truncate, Write, Verify, Add, MakeCommit,
         Committed, TagIt, StepFails, Killed, Exit, Armed, Edit, Discard, Leave, Return, Pull,
         ResetToOrigin, Push, Others, repo, script
<1> QED
    BY <1>1, InvAlways, PTL DEF Spec, NeverDiscardsWork
=============================================================================
