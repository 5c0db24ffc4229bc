----------------------- MODULE VersioneerSafetyProofs -----------------------
(***************************************************************************)
(* Versioneer is typed, the parts of VersioneerInv are inductive, and what *)
(* follows from them, for every history, script and set of tags.           *)
(***************************************************************************)
EXTENDS VersioneerInv, FiniteSetTheorems, TLAPS

\* What render() is given.
PiecesType == [tag: Bases \union {NoTag}, dist: Nat, short: Nat, long: Nat, dirty: BOOLEAN,
               error: Errors]

\* The name of a tag is a version string (versioneer.py:1161-1295).
LEMMA TextType ==
  ASSUME NEW name \in Bases
  PROVE  /\ Plain(name) \in VersionString /\ Text(name) \in VersionString
         /\ TextDirty(name) \in VersionString
<1>h. Hidden \in Int
  BY DEF Hidden
<1>f. "plain" \in Styles \union {"plain"} /\ "git-describe" \in Styles \union {"plain"}
  BY DEF Styles
<1>1. Plain(name) \in VersionString
  BY <1>h, <1>f DEF Plain, VersionString
<1>2. Text(name) \in VersionString
  BY <1>1, LookupAssumption DEF LookupAssumption, Text
<1>3. [Text(name) EXCEPT !.mark = TRUE] \in VersionString
  BY <1>2 DEF VersionString
<1>4. [Plain(name) EXCEPT !.form = "git-describe", !.mark = TRUE] \in VersionString
  BY <1>1, <1>f DEF VersionString
<1> QED
  BY <1>1, <1>2, <1>3, <1>4 DEF TextDirty

\* Whatever the pieces, render() gives versions, in every style (versioneer.py:1298-1328).
LEMMA RenderType ==
  ASSUME NEW p \in PiecesType, NEW style \in Styles
  PROVE  Render(p, style) \in Versions
<1>h. Hidden \in Int
  BY DEF Hidden
<1>f. Styles \subseteq Styles \union {"plain"}
  OBVIOUS
<1>p. /\ p.dist \in Int /\ p.short \in Int /\ p.dirty \in BOOLEAN
      /\ p.tag \in Bases \union {NoTag}
  BY DEF PiecesType
<1>t. HasTag(p) => p.tag \in Bases
  BY <1>p DEF HasTag
<1>s. {"", "0", "0+untagged", "unknown"} \subseteq Bases
  BY DEF Bases
<1>1. \A default \in {"", "0", "0+untagged"} : Base(p, default) \in Bases
  BY <1>t, <1>s DEF Base
<1>2. HasTag(p) => Text(p.tag) \in VersionString /\ TextDirty(p.tag) \in VersionString
  BY <1>t, TextType
<1>4. RenderPep440(p) \in VersionString
  BY <1>1, <1>2, <1>p DEF RenderPep440, IsTagged, VersionString, Styles
<1>5. RenderPep440Post(p) \in VersionString
  BY <1>1, <1>2, <1>p DEF RenderPep440Post, IsTagged, VersionString, Styles
<1>6. RenderPep440Old(p) \in VersionString
  BY <1>1, <1>2, <1>p, <1>h DEF RenderPep440Old, IsTagged, VersionString, Styles
<1>7. RenderPep440Pre(p) \in VersionString
  BY <1>1, <1>2, <1>p, <1>h DEF RenderPep440Pre, VersionString, Styles
<1>8. RenderGitDescribe(p) \in VersionString
  BY <1>1, <1>2, <1>p, <1>h DEF RenderGitDescribe, VersionString, Styles
<1>9. RenderGitDescribeLong(p) \in VersionString
  BY <1>1, <1>p, <1>h DEF RenderGitDescribeLong, VersionString, Styles
<1>3. Plain("unknown") \in VersionString
  BY <1>s, TextType
<1>10. Render(p, style).version \in VersionString
  BY <1>3, <1>4, <1>5, <1>6, <1>7, <1>8, <1>9 DEF Render, Styles
<1>11. /\ Render(p, style).full = p.long /\ Render(p, style).error \in {"none", p.error}
       /\ Render(p, style).dirty \in {"True", "False", "None"}
  BY DEF Render
<1>12. Render(p, style) = [version |-> Render(p, style).version, full |-> Render(p, style).full,
                           dirty |-> Render(p, style).dirty, error |-> Render(p, style).error]
  BY DEF Render
<1>13. p.long \in Nat /\ p.error \in Errors /\ "none" \in Errors
  BY DEF PiecesType, Errors
<1> HIDE DEF Render
<1> QED
  BY <1>10, <1>11, <1>12, <1>13 DEF Versions

\* What git-describe prints is about the commit it is asked about, and a tag it names
\* was given (versioneer.py:1029-1100).
LEMMA DescribeType ==
  ASSUME NEW commit \in Nat, NEW tags \in [Tags -> Nat], NEW dirty \in BOOLEAN
  PROVE  /\ Describe(commit, tags, dirty) \in Output
         /\ Describe(commit, tags, dirty).short = commit
         /\ LET tag == Describe(commit, tags, dirty).tag
            IN tag # NoTag =>
                 /\ tag \in Tags /\ tags[tag] # 0
                 /\ tags[tag] + Describe(commit, tags, dirty).dist = commit
<1> DEFINE nearest == Nearest(commit, tags)
           tag == IF nearest = {} THEN NoTag ELSE CHOOSE t \in nearest : TRUE
<1>1. nearest \subseteq {t \in Prefixed \cap Tags : tags[t] \in 1..commit}
  BY DEF Nearest
<1>2. tag = NoTag \/ tag \in nearest
  OBVIOUS
<1>3. tag \in Ref \union {NoTag}
  BY <1>1, <1>2, VersioneerAssumption DEF VersioneerAssumption
<1>4. Describe(commit, tags, dirty) =
        [tag |-> tag, dist |-> IF tag = NoTag THEN 0 ELSE commit - tags[tag],
         short |-> commit, dirty |-> dirty]
  BY DEF Describe
<1> QED
  BY <1>1, <1>2, <1>3, <1>4 DEF Output

\* The pieces render() gets are pieces (versioneer.py:1063-1117).
LEMMA PiecesTyped ==
  ASSUME NEW d \in Output, NEW full \in Nat, NEW total \in Nat
  PROVE  Pieces(d, full, total) \in PiecesType
<1>1. \A t \in Prefixed : Stripped[t] \in Bases
  BY DEF Bases
<1> QED
  BY <1>1 DEF Pieces, PiecesType, Output, Errors

\* The values a job and a tree start with.
LEMMA ConstantTypes ==
  /\ NoVersion \in Versions /\ Unknown \in Versions /\ NoOutput \in Output
  /\ Idle \in Job /\ Nothing \in Files /\ NoTree \in [files: Files, linked: BOOLEAN]
<1>1. Unknown.version \in VersionString
  <2>1. "0+unknown" \in Bases
    BY DEF Bases
  <2> QED
    BY <2>1, TextType DEF Unknown
<1>2. Unknown \in Versions /\ NoVersion \in Versions
  BY <1>1 DEF Unknown, NoVersion, Versions, Errors
<1>3. NoOutput \in Output
  BY DEF NoOutput, Output
<1>4. NoVersion.version \in VersionString
  BY <1>2 DEF Versions
<1>5. Idle \in Job
  BY <1>2, <1>3, <1>4 DEF Idle, Job, Steps
<1>6. Nothing \in Files
  BY VersioneerAssumption DEF VersioneerAssumption, Nothing, Files, Content, Absent
<1> QED
  BY <1>2, <1>3, <1>5, <1>6 DEF NoTree

\* The contents _version.py may have in a checkout.
LEMMA ContentTypes ==
  /\ Absent \in Content /\ Torn \in Content /\ Long \in Content
  /\ \A v \in Versions : Short(v) \in Content
  /\ \A f \in Content : f.kind = "short" => f.versions \in Versions
  BY DEF Content, Absent, Torn, Long, Short

\* The worktree's _version.py is never one whose keywords git has expanded.
LEMMA FoundType ==
  ASSUME NEW f \in Content
  PROVE  /\ FromKeywords(f) = {}
         /\ OrElse(FromKeywords(f), FromFile(f)) = FromFile(f)
         /\ FromFile(f) = IF f.kind = "short" THEN {f.versions} ELSE {}
         /\ FromFile(f) \subseteq Versions
<1>1. f.kind # "expanded"
  BY DEF Content
<1>2. FromKeywords(f) = {}
  BY <1>1 DEF FromKeywords, HasKeywords
<1> QED
  BY <1>2, ContentTypes DEF FromFile, OrElse

\* Going to a step changes the step.
LEMMA GotoType ==
  ASSUME job \in Job, NEW s \in Steps, Goto(s)
  PROVE  job' \in Job
  BY DEF Goto, Job

\* What a developer does is noted in the job.
LEMMA DisturbType ==
  ASSUME job \in Job, NEW heads \in SUBSET (1..MaxCommits), Disturb(heads)
  PROVE  job' \in Job
  BY DEF Disturb, Job

\* The name found first is kept in the job.
LEMMA NamedType ==
  ASSUME job \in Job, NEW name \in VersionString
  PROVE  Named(name) \in Job
<1>1. Forget \in Job
  BY ConstantTypes DEF Forget, Job
<1>2. AfterLookup(job.cmd) \in Steps
  BY DEF AfterLookup, Steps
<1>3. "read" \in Steps
  BY DEF Steps
<1> QED
  BY <1>1, <1>2, <1>3 DEF Named, Job

\* An answer is kept in the job.
LEMMA AnsweredType ==
  ASSUME job \in Job, NEW v \in Versions
  PROVE  Answered(v) \in Job
<1>1. Forget \in Job
  BY ConstantTypes DEF Forget, Job
<1>2. AfterLookup(job.cmd) \in Steps
  BY DEF AfterLookup, Steps
<1>3. v.version \in VersionString
  BY DEF Versions
<1>4. Named(v.version) \in Job
  BY <1>3, NamedType
<1> QED
  BY <1>1, <1>2, <1>4 DEF Answered, Job

\* Files of a checkout are files, whatever git takes of them.
LEMMA MergeType ==
  ASSUME NEW names, NEW f \in Files, NEW g \in Files
  PROVE  /\ Merge(names, f, g) \in Files
         /\ Merge(names, f, g).src = g.src
         /\ Merge(names, f, g).ini = g.ini
         /\ Merge(names, f, g).cfg = g.cfg
         /\ Merge(names, f, g).vf = IF "_version.py" \in names THEN f.vf ELSE g.vf
         /\ Merge(names, f, g).man = IF "MANIFEST.in" \in names THEN f.man ELSE g.man
         /\ Merge(names, f, g).attr = IF ".gitattributes" \in names THEN f.attr ELSE g.attr
  BY DEF Merge, Files

\* What git takes of the files are files, and those it knows as they are.
LEMMA TrackedType ==
  ASSUME TypeOK
  PROVE  /\ Tracked \in Files
         /\ Tracked.src = files.src /\ Tracked.ini = files.ini /\ Tracked.cfg = files.cfg
         /\ Tracked.vf = IF "_version.py" \in Names \ known THEN Absent ELSE files.vf
         /\ Tracked.man = IF "MANIFEST.in" \in Names \ known THEN {} ELSE files.man
         /\ Tracked.attr = IF ".gitattributes" \in Names \ known THEN "absent" ELSE files.attr
<1>1. Nothing \in Files /\ files \in Files
  BY ConstantTypes DEF TypeOK
<1>2. Nothing.vf = Absent /\ Nothing.man = {} /\ Nothing.attr = "absent"
  BY DEF Nothing
<1> DEFINE unknown == Names \ known
<1>3. Tracked = Merge(unknown, Nothing, files)
  BY DEF Tracked
<1> HIDE DEF unknown
<1>4. /\ Tracked \in Files
      /\ Tracked.src = files.src /\ Tracked.ini = files.ini /\ Tracked.cfg = files.cfg
      /\ Tracked.vf = IF "_version.py" \in unknown THEN Nothing.vf ELSE files.vf
      /\ Tracked.man = IF "MANIFEST.in" \in unknown THEN Nothing.man ELSE files.man
      /\ Tracked.attr = IF ".gitattributes" \in unknown THEN Nothing.attr ELSE files.attr
  BY <1>1, <1>3, MergeType
<1> QED
  BY <1>2, <1>4 DEF unknown

\* Commits are numbered within the bound.
LEMMA HeadType ==
  ASSUME TypeOK
  PROVE  head \in 1..MaxCommits /\ DOMAIN commits \subseteq 1..MaxCommits
<1>1. Len(commits) \in 1..MaxCommits /\ head \in 1..Len(commits) /\ DOMAIN commits = 1..Len(commits)
  BY DEF TypeOK
<1> QED
  BY <1>1, VersioneerAssumption DEF VersioneerAssumption

\* An aborted command leaves nothing but the files as they are.
LEMMA AbortType ==
  ASSUME TypeOK, Abort, UNCHANGED todo, breaks' \in 0..MaxBreaks
  PROVE  TypeOK'
  BY ConstantTypes DEF TypeOK, Abort, repo

\* The types hold of the checkout before any command.
THEOREM TypeInit == Init => TypeOK
<1> SUFFICES ASSUME Init PROVE TypeOK
  OBVIOUS
<1>1. files \in Files
  BY VersioneerAssumption, ContentTypes DEF Init, Files, VersioneerAssumption
<1>2. commits \in Seq(Files) /\ Len(commits) \in 1..MaxCommits /\ head \in 1..Len(commits)
  BY <1>1, VersioneerAssumption DEF Init, VersioneerAssumption
<1>3. todo \in Seq(Commands)
  BY VersioneerAssumption DEF Init, VersioneerAssumption
<1>4. cut \subseteq {"_version.py", ".gitattributes"}
  BY DEF Init
<1>5. tagged \in [Tags -> 0..Len(commits)]
  BY <1>2 DEF Init
<1>6. /\ egg = {} /\ dist = {} /\ Cardinality(egg) <= 1 /\ Cardinality(dist) <= 1
  BY FS_EmptySet DEF Init
<1>7. breaks \in 0..MaxBreaks
  BY VersioneerAssumption DEF Init, VersioneerAssumption
<1>8. known \subseteq Names /\ rel = NoTree /\ job = Idle
  BY DEF Init, Present
<1> QED
  BY <1>1, <1>2, <1>3, <1>4, <1>5, <1>6, <1>7, <1>8, ConstantTypes DEF TypeOK

\* No step of a command or of the developer breaks the types.
THEOREM TypeStep == TypeOK /\ [Next]_vars => TypeOK'
<1> SUFFICES ASSUME TypeOK, [Next]_vars PROVE TypeOK'
  OBVIOUS
<1>1. ASSUME Edit PROVE TypeOK'
  <2>1. job' \in Job
    BY <1>1, DisturbType DEF Edit, TypeOK
  <2>2. 0 \in 0..MaxCommits
    BY VersioneerAssumption DEF VersioneerAssumption
  <2>3. files' \in Files
    BY <1>1, <2>2 DEF Edit, TypeOK, Files
  <2> QED
    BY <1>1, <2>1, <2>3 DEF Edit, TypeOK, repo, count
<1>2. ASSUME Configure PROVE TypeOK'
  <2>1. job' \in Job
    BY <1>2, DisturbType DEF Configure, TypeOK
  <2>2. 0 \in 0..MaxCommits
    BY VersioneerAssumption DEF VersioneerAssumption
  <2>3. files' \in Files
    BY <1>2, <2>2 DEF Configure, TypeOK, Files
  <2> QED
    BY <1>2, <2>1, <2>3 DEF Configure, TypeOK, repo, count
<1>3. ASSUME Commit PROVE TypeOK'
  <2>1. Tracked \in Files
    BY TrackedType
  <2>a. head + 1 \in 0..MaxCommits
    BY <1>3, VersioneerAssumption DEF Commit, TypeOK, VersioneerAssumption
  <2>2. [Tracked EXCEPT !.src = head + 1] \in Files /\ files' \in Files
    BY <1>3, <2>1, <2>a DEF Commit, TypeOK, Files
  <2>3. /\ commits' \in Seq(Files) /\ Len(commits') = Len(commits) + 1
        /\ Len(commits') \in 1..MaxCommits /\ head' \in 1..Len(commits')
    BY <1>3, <2>2, VersioneerAssumption DEF Commit, TypeOK, VersioneerAssumption
  <2>4. tagged' \in [Tags -> 0..Len(commits')]
    BY <1>3, <2>3 DEF Commit, TypeOK
  <2>5. job' \in Job
    <3>1. {head + 1} \subseteq 1..MaxCommits
      BY <1>3, <2>a DEF Commit, TypeOK
    <3> QED
      BY <1>3, <3>1, DisturbType DEF Commit, TypeOK
  <2>6. known' \subseteq Names
    BY <1>3 DEF Commit, TypeOK
  <2> QED
    BY <1>3, <2>2, <2>3, <2>4, <2>5, <2>6 DEF Commit, TypeOK, count
<1>4. ASSUME NEW t \in Tags, Tag(t) PROVE TypeOK'
  <2>1. job' \in Job
    BY <1>4, DisturbType DEF Tag, TypeOK
  <2>2. tagged' \in [Tags -> 0..Len(commits)]
    BY <1>4 DEF Tag, TypeOK
  <2> QED
    BY <1>4, <2>1, <2>2 DEF Tag, TypeOK, count
<1>5. ASSUME NEW c \in DOMAIN commits, Checkout(c) PROVE TypeOK'
  <2>1. job' \in Job
    <3>1. {c} \subseteq 1..MaxCommits
      BY HeadType
    <3> QED
      BY <1>5, <3>1, DisturbType DEF Checkout, TypeOK
  <2>2. commits[c] \in Files /\ c \in 1..Len(commits)
    BY <1>5 DEF TypeOK
  <2>3. files' \in Files
    BY <1>5, <2>2, MergeType DEF Checkout, TypeOK
  <2>4. known' \subseteq Names /\ cut' \subseteq {"_version.py", ".gitattributes"}
    BY <1>5 DEF Checkout, Present, TypeOK
  <2> QED
    BY <1>5, <2>1, <2>2, <2>3, <2>4 DEF Checkout, TypeOK, count
<1>6. ASSUME Start PROVE TypeOK'
  <2>1. Head(todo) \in Commands /\ todo' \in Seq(Commands)
    BY <1>6 DEF Start, TypeOK
  <2>a. "config" \in Steps /\ "require" \in Steps
    BY DEF Steps
  <2>2. job' \in Job
    BY <1>6, <2>1, <2>a, ConstantTypes DEF Start, Job
  <2> QED
    BY <1>6, <2>1, <2>2 DEF Start, TypeOK, repo
<1>7. ASSUME Require PROVE TypeOK'
  <2>1. CASE egg # {}
    BY <1>7, <2>1, NamedType DEF Require, TypeOK, repo, count
  <2>2. CASE egg = {}
    <3>1. job' \in Job
      BY <1>7, <2>2, GotoType DEF Require, TypeOK, Steps
    <3> QED
      BY <1>7, <3>1 DEF Require, TypeOK, repo, count
  <2> QED
    BY <2>1, <2>2
<1>8. ASSUME ReadVersionFile PROVE TypeOK'
  <2>1. CASE ~HasConfig
    BY <1>8, <2>1, AbortType DEF ReadVersionFile, TypeOK, count
  <2>2. CASE HasConfig
    <3>1. files.vf \in Content
      BY DEF TypeOK, Files
    <3>2. job' \in Job
      <4>1. CASE FromFile(files.vf) # {}
        BY <1>8, <2>2, <3>1, <4>1, FoundType, AnsweredType
           DEF ReadVersionFile, Answer, TypeOK
      <4>2. CASE FromFile(files.vf) = {}
        BY <1>8, <2>2, <3>1, <4>2, FoundType, GotoType DEF ReadVersionFile, TypeOK, Steps
      <4> QED
        BY <4>1, <4>2
    <3> QED
      BY <1>8, <2>2, <3>2 DEF ReadVersionFile, TypeOK, repo, count
  <2> QED
    BY <2>1, <2>2
<1>9. ASSUME GitFails PROVE TypeOK'
  <2>0. breaks' \in 0..MaxBreaks
    BY <1>9, VersioneerAssumption DEF GitFails, TypeOK, VersioneerAssumption
  <2>1. CASE job.at \in {"count", "show"}
    BY <1>9, <2>0, <2>1, AbortType DEF GitFails
  <2>2. CASE job.at \notin {"count", "show"}
    <3>1. Answered(Unknown) \in Job
      BY ConstantTypes, AnsweredType DEF TypeOK
    <3>2. job' \in Job
      BY <1>9, <2>2, <3>1 DEF GitFails, Job
    <3> QED
      BY <1>9, <2>0, <2>2, <3>2 DEF GitFails, TypeOK, repo
  <2> QED
    BY <2>1, <2>2
<1>10. ASSUME GitDescribe PROVE TypeOK'
  <2>a. IsDirty \in BOOLEAN
    BY DEF IsDirty
  <2>b. head \in Nat /\ tagged \in [Tags -> Nat]
    BY DEF TypeOK
  <2>1. Describe(head, tagged, IsDirty) \in Output
    BY <2>a, <2>b, DescribeType
  <2>2. job' \in Job
    BY <1>10, <2>1, HeadType DEF GitDescribe, TypeOK, Job, Steps
  <2> QED
    BY <1>10, <2>2 DEF GitDescribe, TypeOK, repo, count
<1>11. ASSUME GitHead PROVE TypeOK'
  <2>a. {"count", "show"} \subseteq Steps
    BY DEF Steps
  <2>b. head \in Nat /\ job \in Job
    BY DEF TypeOK
  <2>1. job' \in Job
    BY <1>11, <2>a, <2>b DEF GitHead, Revision, Job
  <2> QED
    BY <1>11, <2>1 DEF GitHead, TypeOK, repo, count
<1>12. ASSUME GitCount PROVE TypeOK'
  <2>a. {"count", "show"} \subseteq Steps
    BY DEF Steps
  <2>b. head \in Nat /\ job \in Job
    BY DEF TypeOK
  <2>1. job' \in Job
    BY <1>12, <2>a, <2>b DEF GitCount, Revision, Job
  <2> QED
    BY <1>12, <2>1 DEF GitCount, TypeOK, repo, count
<1>13. ASSUME GitShow PROVE TypeOK'
  <2>1. job.out \in Output /\ job.full \in Nat /\ job.total \in Nat
    BY DEF TypeOK, Job
  <2>2. Render(Pieces(job.out, job.full, job.total), Style) \in Versions
    BY <2>1, PiecesTyped, RenderType, LookupAssumption DEF LookupAssumption
  <2>3. job' \in Job
    BY <1>13, <2>2, AnsweredType DEF GitShow, Answer, TypeOK
  <2> QED
    BY <1>13, <2>3 DEF GitShow, TypeOK, repo, count
<1>14. ASSUME PrintVersion PROVE TypeOK'
  <2>1. job' \in Job
    BY <1>14, GotoType DEF PrintVersion, TypeOK, Steps
  <2> QED
    BY <1>14, <2>1 DEF PrintVersion, TypeOK, repo, count
<1>15. ASSUME WriteEggInfo PROVE TypeOK'
  <2>1. ReleaseName \in VersionString
    BY DEF ReleaseName, TypeOK, Job, Versions
  <2>2. job' \in Job
    BY <1>15, <2>1 DEF WriteEggInfo, TypeOK, Job, Steps
  <2>3. egg' \subseteq VersionString /\ Cardinality(egg') <= 1
    BY <1>15, <2>1, FS_Singleton DEF WriteEggInfo
  <2> QED
    BY <1>15, <2>2, <2>3 DEF WriteEggInfo, TypeOK, repo, count
<1>16. ASSUME MakeReleaseTree PROVE TypeOK'
  <2>1. job' \in Job
    BY <1>16, GotoType DEF MakeReleaseTree, TypeOK, Steps
  <2>2. rel' \in [files: Files, linked: BOOLEAN]
    BY <1>16 DEF MakeReleaseTree, TypeOK
  <2> QED
    BY <1>16, <2>1, <2>2 DEF MakeReleaseTree, TypeOK, repo, count
<1>17. ASSUME BuildPy PROVE TypeOK'
  <2>1. job' \in Job
    BY <1>17, GotoType DEF BuildPy, TypeOK, Steps
  <2>2. rel' \in [files: Files, linked: BOOLEAN]
    BY <1>17 DEF BuildPy, TypeOK
  <2> QED
    BY <1>17, <2>1, <2>2 DEF BuildPy, TypeOK, repo, count
<1>18. ASSUME UnlinkRel PROVE TypeOK'
  <2>1. CASE rel.files.vf = Absent
    BY <1>18, <2>1, AbortType DEF UnlinkRel, TypeOK, count
  <2>2. CASE rel.files.vf # Absent
    <3>1. job' \in Job
      BY <1>18, <2>2, GotoType DEF UnlinkRel, TypeOK, Steps
    <3>2. [rel.files EXCEPT !.vf = Absent] \in Files
      BY ContentTypes DEF TypeOK, Files
    <3>3. rel' \in [files: Files, linked: BOOLEAN]
      BY <1>18, <2>2, <3>2 DEF UnlinkRel, Unlinked, TypeOK
    <3> QED
      BY <1>18, <2>2, <3>1, <3>3 DEF UnlinkRel, TypeOK, repo, count
  <2> QED
    BY <2>1, <2>2
<1>19. ASSUME OpenRel PROVE TypeOK'
  <2>1. job' \in Job
    BY <1>19, GotoType DEF OpenRel, TypeOK, Steps
  <2>2. Torn \in Content
    BY ContentTypes DEF TypeOK, Job
  <2>3. files' \in Files /\ rel' \in [files: Files, linked: BOOLEAN]
    BY <1>19, <2>2 DEF OpenRel, WriteThrough, TypeOK, Files
  <2> QED
    BY <1>19, <2>1, <2>3 DEF OpenRel, TypeOK, repo, count
<1>20. ASSUME WriteRel PROVE TypeOK'
  <2>1. job' \in Job
    BY <1>20, GotoType DEF WriteRel, TypeOK, Steps
  <2>2. Short(job.ver) \in Content
    BY ContentTypes DEF TypeOK, Job
  <2>3. files' \in Files /\ rel' \in [files: Files, linked: BOOLEAN]
    BY <1>20, <2>2 DEF WriteRel, WriteThrough, TypeOK, Files
  <2> QED
    BY <1>20, <2>1, <2>3 DEF WriteRel, TypeOK, repo, count
<1>21. ASSUME MakeArchive PROVE TypeOK'
  <2>1. job' \in Job
    BY <1>21, GotoType DEF MakeArchive, TypeOK, Steps
  <2>2. Finished \in Dist
    BY <1>21 DEF MakeArchive, Finished, Dist, TypeOK, Job, Files
  <2>a. dist' = {Finished}
    BY <1>21 DEF MakeArchive
  <2>3. dist' \subseteq Dist /\ Cardinality(dist') <= 1
    BY <2>2, <2>a, FS_Singleton
  <2> QED
    BY <1>21, <2>1, <2>3, ConstantTypes DEF MakeArchive, TypeOK, repo, count
<1>22. ASSUME CMakeBuild PROVE TypeOK'
  <2>1. job' \in Job
    BY <1>22, GotoType DEF CMakeBuild, TypeOK, Steps
  <2>2. Finished \in Dist
    BY <1>22 DEF CMakeBuild, Finished, Dist, TypeOK, Job, Files
  <2>a. dist' = {Finished}
    BY <1>22 DEF CMakeBuild
  <2>3. dist' \subseteq Dist /\ Cardinality(dist') <= 1
    BY <2>2, <2>a, FS_Singleton
  <2> QED
    BY <1>22, <2>1, <2>3, ConstantTypes DEF CMakeBuild, TypeOK, repo, count
<1>23. ASSUME UnlinkVf PROVE TypeOK'
  <2>1. CASE files.vf = Absent
    BY <1>23, <2>1, AbortType DEF UnlinkVf, TypeOK, count
  <2>2. CASE files.vf # Absent
    <3>1. job' \in Job
      BY <1>23, <2>2, GotoType DEF UnlinkVf, TypeOK, Steps
    <3>2. files' \in Files
      BY <1>23, <2>2, ContentTypes DEF UnlinkVf, WriteVf, TypeOK, Files
    <3> QED
      BY <1>23, <2>2, <3>1, <3>2 DEF UnlinkVf, TypeOK, repo, count
  <2> QED
    BY <2>1, <2>2
<1>24. ASSUME OpenVf PROVE TypeOK'
  <2>1. job' \in Job
    BY <1>24, GotoType DEF OpenVf, TypeOK, Steps
  <2>2. Torn \in Content
    BY ContentTypes DEF TypeOK, Job
  <2>3. files' \in Files
    BY <1>24, <2>2 DEF OpenVf, WriteVf, TypeOK, Files
  <2> QED
    BY <1>24, <2>1, <2>3 DEF OpenVf, TypeOK, repo, count
<1>25. ASSUME WriteShort PROVE TypeOK'
  <2>1. job' \in Job
    BY <1>25, GotoType DEF WriteShort, TypeOK, Steps
  <2>2. Short(job.ver) \in Content
    BY ContentTypes DEF TypeOK, Job
  <2>3. files' \in Files
    BY <1>25, <2>2 DEF WriteShort, WriteVf, TypeOK, Files
  <2> QED
    BY <1>25, <2>1, <2>3 DEF WriteShort, TypeOK, repo, count
<1>26. ASSUME OpenLong PROVE TypeOK'
  <2>1. job' \in Job
    BY <1>26, GotoType DEF OpenLong, TypeOK, Steps
  <2>2. Torn \in Content
    BY ContentTypes DEF TypeOK, Job
  <2>3. files' \in Files
    BY <1>26, <2>2 DEF OpenLong, WriteVf, TypeOK, Files
  <2> QED
    BY <1>26, <2>1, <2>3 DEF OpenLong, TypeOK, repo, count
<1>27. ASSUME WriteLong PROVE TypeOK'
  <2>1. job' \in Job
    BY <1>27, GotoType DEF WriteLong, TypeOK, Steps
  <2>2. Long \in Content
    BY ContentTypes DEF TypeOK, Job
  <2>3. files' \in Files
    BY <1>27, <2>2 DEF WriteLong, WriteVf, TypeOK, Files
  <2> QED
    BY <1>27, <2>1, <2>3 DEF WriteLong, TypeOK, repo, count
<1>28. ASSUME BuildExe PROVE TypeOK'
  <2>1. job' \in Job
    BY <1>28, GotoType DEF BuildExe, TypeOK, Steps, AfterFreeze
  <2> QED
    BY <1>28, <2>1 DEF BuildExe, TypeOK, repo, count
<1>29. ASSUME Py2exe PROVE TypeOK'
  <2>1. job' \in Job
    BY <1>29, GotoType DEF Py2exe, TypeOK, Steps, AfterFreeze
  <2> QED
    BY <1>29, <2>1 DEF Py2exe, TypeOK, repo, count
<1>30. ASSUME ReadConfig PROVE TypeOK'
  <2>1. job' \in Job
    BY <1>30, GotoType DEF ReadConfig, TypeOK, Steps
  <2>2. files' \in Files
    BY <1>30 DEF ReadConfig, HasConfig, TypeOK, Files
  <2> QED
    BY <1>30, <2>1, <2>2 DEF ReadConfig, TypeOK, repo, count
<1>31. ASSUME WriteSnippet PROVE TypeOK'
  <2>1. job' \in Job
    BY <1>31, GotoType DEF WriteSnippet, TypeOK, Steps
  <2>2. files' \in Files
    BY <1>31 DEF WriteSnippet, Snippet, TypeOK, Files
  <2> QED
    BY <1>31, <2>1, <2>2 DEF WriteSnippet, TypeOK, repo, count
<1>32. ASSUME WriteManifest PROVE TypeOK'
  <2>1. job' \in Job
    BY <1>32, GotoType DEF WriteManifest, TypeOK, Steps
  <2>2. files' \in Files
    BY <1>32 DEF WriteManifest, TypeOK, Files
  <2> QED
    BY <1>32, <2>1, <2>2 DEF WriteManifest, TypeOK, repo, count
<1>33. ASSUME OpenAttributes PROVE TypeOK'
  <2>1. job' \in Job
    BY <1>33, GotoType DEF OpenAttributes, TypeOK, Steps
  <2>2. files' \in Files
    BY <1>33 DEF OpenAttributes, TypeOK, Files
  <2> QED
    BY <1>33, <2>1, <2>2 DEF OpenAttributes, TypeOK, repo, count
<1>34. ASSUME WriteAttributes PROVE TypeOK'
  <2>1. job' \in Job
    BY <1>34, GotoType DEF WriteAttributes, TypeOK, Steps
  <2>2. files' \in Files
    BY <1>34 DEF WriteAttributes, TypeOK, Files
  <2> QED
    BY <1>34, <2>1, <2>2 DEF WriteAttributes, TypeOK, repo, count
<1>35. ASSUME GitAdd PROVE TypeOK'
  <2>a. "scan" \in Steps
    BY DEF Steps
  <2>d. job' = [job EXCEPT !.at = "scan", !.ok = TRUE]
    BY <1>35 DEF GitAdd
  <2>1. job' \in Job
    BY <2>a, <2>d DEF TypeOK, Job
  <2>b. breaks' \in 0..MaxBreaks
    BY <1>35, VersioneerAssumption DEF GitAdd, TypeOK, VersioneerAssumption
  <2>c. ToAdd \subseteq Names
    BY DEF ToAdd, Names
  <2>2. known' \subseteq Names /\ cut' \subseteq {"_version.py", ".gitattributes"}
    BY <1>35, <2>c DEF GitAdd, TypeOK
  <2> QED
    BY <1>35, <2>1, <2>2, <2>b DEF GitAdd, TypeOK
<1>36. ASSUME Exit PROVE TypeOK'
  <2>a. "done" \in Steps /\ ScanSetupPy \in BOOLEAN
    BY VersioneerAssumption DEF Steps, ScanSetupPy, VersioneerAssumption
  <2>1. job' \in Job
    BY <1>36, <2>a DEF Exit, TypeOK, Job
  <2> QED
    BY <1>36, <2>1 DEF Exit, TypeOK, repo, count
<1>37. ASSUME End PROVE TypeOK'
  BY <1>37, ConstantTypes, FS_EmptySet DEF End, TypeOK, repo, count
<1>38. ASSUME Kill PROVE TypeOK'
  <2>1. breaks' \in 0..MaxBreaks
    BY <1>38, VersioneerAssumption DEF Kill, TypeOK, VersioneerAssumption
  <2> QED
    BY <1>38, <2>1, AbortType DEF Kill
<1>39. ASSUME UNCHANGED vars PROVE TypeOK'
  BY <1>39 DEF vars, repo, count, TypeOK
<1> QED
  BY <1>1, <1>2, <1>3, <1>4, <1>5, <1>6, <1>7, <1>8, <1>9, <1>10, <1>11, <1>12, <1>13,
     <1>14, <1>15, <1>16, <1>17, <1>18, <1>19, <1>20, <1>21, <1>22, <1>23, <1>24, <1>25,
     <1>26, <1>27, <1>28, <1>29, <1>30, <1>31, <1>32, <1>33, <1>34, <1>35, <1>36, <1>37,
     <1>38, <1>39
     DEF Next, Developer, Lookup, Release, FreezeSteps, Setup, Rest

\* Every variable keeps its type, HEAD names a commit and a tag that was given
\* another, for any tags, scripts and bounds.
THEOREM VersionTypesCorrect == Spec => []TypeOK
  BY TypeInit, TypeStep, PTL DEF Spec

-----------------------------------------------------------------------------
(* What a lookup leaves behind *)

Lookers == Commands \ {"setup"}

\* Where each command goes on after its lookup (versioneer.py:1532-1673).
LEMMA AfterLookupAt ==
  ASSUME NEW cmd \in Lookers
  PROVE  /\ cmd # "none"
         /\ \/ cmd = "version" /\ AfterLookup(cmd) = "print"
            \/ cmd = "sdist" /\ AfterLookup(cmd) = "egg"
            \/ cmd = "build" /\ AfterLookup(cmd) = "tree"
            \/ cmd \in {"build_exe", "py2exe"} /\ AfterLookup(cmd) = "unlink"
  BY DEF Lookers, Commands, AfterLookup

\* The first lookup gives a name, and with get_cmdclass() there is a second.
LEMMA NamedFields ==
  ASSUME job \in Job, NEW n
  PROVE  LET j == Named(n) IN
         /\ j.cmd = job.cmd /\ j.quiet = job.quiet /\ j.fresh = job.fresh
         /\ j.round = 2 /\ j.name = n /\ j.ver = job.ver /\ j.ok = job.ok /\ j.out = NoOutput
         /\ j.seen = {}
         /\ j.at = IF UsesCmdclass THEN "read" ELSE AfterLookup(job.cmd)
  BY DEF Named, Forget, Job

\* The answer is the name in the first round, the command's version in the second.
LEMMA AnsweredFields ==
  ASSUME job \in Job, NEW v
  PROVE  LET j == Answered(v) IN
         /\ j.cmd = job.cmd /\ j.quiet = job.quiet /\ j.fresh = job.fresh
         /\ j.ok = job.ok /\ j.seen = {}
         /\ job.round = 1 => /\ j.name = v.version /\ j.round = 2
                             /\ j.ver = job.ver
                             /\ j.at = IF UsesCmdclass THEN "read" ELSE AfterLookup(job.cmd)
         /\ job.round # 1 => /\ j.name = job.name /\ j.round = job.round /\ j.ver = v
                             /\ j.at = AfterLookup(job.cmd)
<1>1. /\ Forget \in [cmd: {job.cmd}, at: {job.at}, quiet: {job.quiet}, seen: {{}},
                     fresh: {job.fresh}, round: {job.round}, name: {job.name}, ver: {job.ver},
                     out: {NoOutput}, full: {0}, total: {0}, ok: {job.ok}]
  BY DEF Forget, Job
<1>2. CASE job.round = 1
  <2>1. Answered(v) = Named(v.version)
    BY <1>2 DEF Answered
  <2>2. Answered(v) = [Forget EXCEPT !.name = v.version, !.round = 2,
                          !.at = IF UsesCmdclass THEN "read" ELSE AfterLookup(job.cmd)]
    BY <2>1 DEF Named
  <2> QED
    BY <1>1, <1>2, <2>2
<1>3. CASE job.round # 1
  <2>1. Answered(v) = [Forget EXCEPT !.ver = v, !.at = AfterLookup(job.cmd)]
    BY <1>3 DEF Answered
  <2> QED
    BY <1>1, <1>3, <2>1
<1> QED
  BY <1>2, <1>3

(* Which command may be at which step *)

\* The step after a lookup is one of the command that looked up.
LEMMA PlacedAfterLookup ==
  ASSUME NEW cmd \in Lookers
  PROVE  Placed(cmd, AfterLookup(cmd)) /\ Placed(cmd, "read")
  BY AfterLookupAt
     DEF Placed, LookupSteps, GitSteps, ReleaseSteps, NamedSteps, ShortSteps, LongSteps,
         ManifestSteps, AttributeSteps, AddSteps, Lookers

\* No command, no step.
LEMMA PlacedIdle == Placed("none", "idle") /\ Idle.cmd = "none" /\ Idle.at = "idle"
  BY DEF Placed, Idle, LookupSteps, GitSteps, ReleaseSteps, NamedSteps, ShortSteps,
         LongSteps, ManifestSteps, AttributeSteps, AddSteps

\* Only a command of setup.py looks a version up.
LEMMA LookerAt ==
  ASSUME TypeOK, PlaceInv, job.at \in LookupSteps
  PROVE  job.cmd \in Lookers /\ job \in Job
  BY DEF TypeOK, PlaceInv, Placed, Lookers, Job

\* The place of a job after an answer.
LEMMA PlacedAnswered ==
  ASSUME TypeOK, PlaceInv, job.at \in LookupSteps, NEW v
  PROVE  /\ Placed(Answered(v).cmd, Answered(v).at) /\ Placed(Named(v).cmd, Named(v).at)
         /\ Answered(v).at \in {"read", "print", "egg", "tree", "unlink"}
         /\ Named(v).at \in {"read", "print", "egg", "tree", "unlink"}
         /\ Answered(v).cmd = job.cmd /\ Named(v).cmd = job.cmd
<1>1. job.cmd \in Lookers /\ job \in Job
  BY LookerAt
<1>2. AfterLookup(job.cmd) \in {"print", "egg", "tree", "unlink"}
  BY <1>1, AfterLookupAt
<1> QED
  BY <1>1, <1>2, AnsweredFields, NamedFields, PlacedAfterLookup

\* No command gets to a step of another.
LEMMA PlaceStep ==
  ASSUME TypeOK, PlaceInv, [Next]_vars
  PROVE  PlaceInv'
<1>1. ASSUME Edit PROVE PlaceInv'
  BY <1>1 DEF Edit, Disturb, repo, count, TypeOK, Job, PlaceInv, Placed, LookupSteps,
         GitSteps, ReleaseSteps, NamedSteps, ShortSteps, LongSteps, ManifestSteps,
         AttributeSteps, AddSteps
<1>2. ASSUME Configure PROVE PlaceInv'
  BY <1>2
     DEF Configure, Disturb, repo, count, TypeOK, Job, PlaceInv, Placed, LookupSteps,
         GitSteps, ReleaseSteps, NamedSteps, ShortSteps, LongSteps, ManifestSteps,
         AttributeSteps, AddSteps
<1>3. ASSUME Commit PROVE PlaceInv'
  BY <1>3 DEF Commit, Disturb, repo, count, TypeOK, Job, PlaceInv, Placed, LookupSteps,
         GitSteps, ReleaseSteps, NamedSteps, ShortSteps, LongSteps, ManifestSteps,
         AttributeSteps, AddSteps
<1>4. ASSUME NEW t \in Tags, Tag(t) PROVE PlaceInv'
  BY <1>4 DEF Tag, Disturb, repo, count, TypeOK, Job, PlaceInv, Placed, LookupSteps,
         GitSteps, ReleaseSteps, NamedSteps, ShortSteps, LongSteps, ManifestSteps,
         AttributeSteps, AddSteps
<1>5. ASSUME NEW c \in DOMAIN commits, Checkout(c) PROVE PlaceInv'
  BY <1>5 DEF Checkout, Disturb, repo, count, TypeOK, Job, PlaceInv, Placed, LookupSteps,
         GitSteps, ReleaseSteps, NamedSteps, ShortSteps, LongSteps, ManifestSteps,
         AttributeSteps, AddSteps
<1>6. ASSUME Start PROVE PlaceInv'
  <2>1. Placed(job'.cmd, job'.at)
    <3>1. Head(todo) \in Commands
      BY <1>6 DEF Start, TypeOK
    <3>2. /\ job'.cmd = Head(todo)
          /\ job'.at = IF Head(todo) = "setup" THEN "config" ELSE "require"
      BY <1>6 DEF Start, Idle
    <3> QED
      BY <3>1, <3>2
         DEF Placed, Commands, LookupSteps, GitSteps, ReleaseSteps, NamedSteps,
             ShortSteps, LongSteps, ManifestSteps, AttributeSteps, AddSteps
  <2> QED
    BY <2>1 DEF PlaceInv, Placed
<1>7. ASSUME Require PROVE PlaceInv'
  <2>0. job.at \in LookupSteps /\ job.cmd \in Lookers
    BY <1>7, LookerAt DEF Require, LookupSteps
  <2>1. Placed(job'.cmd, job'.at)
    <3>1. CASE \E name \in egg : job' = Named(name)
      BY <2>0, <3>1, PlacedAnswered
    <3>2. CASE Goto("read")
      BY <2>0, <3>2, PlacedAfterLookup DEF Goto, TypeOK, Job
    <3> QED
      BY <1>7, <3>1, <3>2 DEF Require
  <2> QED
    BY <2>1 DEF PlaceInv, Placed
<1>8. ASSUME ReadVersionFile PROVE PlaceInv'
  <2>0. job.at \in LookupSteps /\ job.cmd \in Lookers
    BY <1>8, LookerAt DEF ReadVersionFile, LookupSteps
  <2>1. Placed(job'.cmd, job'.at)
    <3>1. CASE Abort
      BY <3>1, PlacedIdle DEF Abort
    <3>2. CASE \E v \in Versions : job' = Answered(v)
      BY <2>0, <3>2, PlacedAnswered
    <3>3. CASE Goto("describe")
      <4>1. job'.cmd = job.cmd /\ job'.at = "describe"
        BY <3>3 DEF Goto, TypeOK, Job
      <4> QED
        BY <4>1, <2>0 DEF Placed, Lookers, Commands, LookupSteps, GitSteps, ReleaseSteps,
               NamedSteps, ShortSteps, LongSteps, ManifestSteps, AttributeSteps,
               AddSteps
    <3> QED
      BY <1>8, <3>1, <3>2, <3>3, FoundType DEF ReadVersionFile, Answer, TypeOK, Files
  <2> QED
    BY <2>1 DEF PlaceInv, Placed
<1>9. ASSUME GitFails PROVE PlaceInv'
  <2>0. job.at \in LookupSteps /\ job.cmd \in Lookers
    BY <1>9, LookerAt DEF GitFails, LookupSteps, GitSteps
  <2>1. Placed(job'.cmd, job'.at)
    <3>1. CASE Abort
      BY <3>1, PlacedIdle DEF Abort
    <3>2. CASE job' = [Answered(Unknown) EXCEPT !.quiet = FALSE]
      <4>1. Answered(Unknown) \in Job
        BY AnsweredType, ConstantTypes DEF TypeOK
      <4>2. job'.cmd = Answered(Unknown).cmd /\ job'.at = Answered(Unknown).at
        BY <3>2, <4>1 DEF Job
      <4> QED
        BY <4>2, <2>0, PlacedAnswered
    <3> QED
      BY <1>9, <3>1, <3>2 DEF GitFails
  <2> QED
    BY <2>1 DEF PlaceInv, Placed
<1>10. ASSUME GitDescribe PROVE PlaceInv'
  BY <1>10
     DEF GitDescribe, repo, count, TypeOK, Job, PlaceInv, Placed, LookupSteps, GitSteps,
         ReleaseSteps, NamedSteps, ShortSteps, LongSteps, ManifestSteps, AttributeSteps,
         AddSteps
<1>11. ASSUME GitHead PROVE PlaceInv'
  BY <1>11
     DEF GitHead, Revision, repo, count, TypeOK, Job, PlaceInv, Placed, LookupSteps,
         GitSteps, ReleaseSteps, NamedSteps, ShortSteps, LongSteps, ManifestSteps,
         AttributeSteps, AddSteps
<1>12. ASSUME GitCount PROVE PlaceInv'
  BY <1>12
     DEF GitCount, repo, count, TypeOK, Job, PlaceInv, Placed, LookupSteps, GitSteps,
         ReleaseSteps, NamedSteps, ShortSteps, LongSteps, ManifestSteps, AttributeSteps,
         AddSteps
<1>13. ASSUME GitShow PROVE PlaceInv'
  <2>0. job.at \in LookupSteps
    BY <1>13 DEF GitShow, LookupSteps, GitSteps
  <2>1. Placed(job'.cmd, job'.at)
    BY <1>13, <2>0, PlacedAnswered DEF GitShow, Answer
  <2> QED
    BY <2>1 DEF PlaceInv, Placed
<1>14. ASSUME PrintVersion PROVE PlaceInv'
  BY <1>14
     DEF PrintVersion, Goto, repo, count, TypeOK, Job, PlaceInv, Placed, LookupSteps,
         GitSteps, ReleaseSteps, NamedSteps, ShortSteps, LongSteps, ManifestSteps,
         AttributeSteps, AddSteps
<1>15. ASSUME WriteEggInfo PROVE PlaceInv'
  BY <1>15 DEF WriteEggInfo, repo, count, TypeOK, Job, PlaceInv, Placed, LookupSteps,
         GitSteps, ReleaseSteps, NamedSteps, ShortSteps, LongSteps, ManifestSteps,
         AttributeSteps, AddSteps
<1>16. ASSUME MakeReleaseTree PROVE PlaceInv'
  BY <1>16
     DEF MakeReleaseTree, Goto, repo, count, TypeOK, Job, PlaceInv, Placed, LookupSteps,
         GitSteps, ReleaseSteps, NamedSteps, ShortSteps, LongSteps, ManifestSteps,
         AttributeSteps, AddSteps
<1>17. ASSUME BuildPy PROVE PlaceInv'
  BY <1>17 DEF BuildPy, Goto, repo, count, TypeOK, Job, PlaceInv, Placed, LookupSteps,
         GitSteps, ReleaseSteps, NamedSteps, ShortSteps, LongSteps, ManifestSteps,
         AttributeSteps, AddSteps
<1>18. ASSUME UnlinkRel PROVE PlaceInv'
  BY <1>18
     DEF UnlinkRel, Goto, Abort, Idle, Unlinked, repo, count, TypeOK, Job, PlaceInv,
         Placed, LookupSteps, GitSteps, ReleaseSteps, NamedSteps, ShortSteps, LongSteps,
         ManifestSteps, AttributeSteps, AddSteps
<1>19. ASSUME OpenRel PROVE PlaceInv'
  BY <1>19 DEF OpenRel, Goto, WriteThrough, repo, count, TypeOK, Job, PlaceInv, Placed,
         LookupSteps, GitSteps, ReleaseSteps, NamedSteps, ShortSteps, LongSteps,
         ManifestSteps, AttributeSteps, AddSteps
<1>20. ASSUME WriteRel PROVE PlaceInv'
  BY <1>20 DEF WriteRel, Goto, WriteThrough, repo, count, TypeOK, Job, PlaceInv, Placed,
         LookupSteps, GitSteps, ReleaseSteps, NamedSteps, ShortSteps, LongSteps,
         ManifestSteps, AttributeSteps, AddSteps
<1>21. ASSUME MakeArchive PROVE PlaceInv'
  BY <1>21
     DEF MakeArchive, Goto, repo, count, TypeOK, Job, PlaceInv, Placed, LookupSteps,
         GitSteps, ReleaseSteps, NamedSteps, ShortSteps, LongSteps, ManifestSteps,
         AttributeSteps, AddSteps
<1>22. ASSUME CMakeBuild PROVE PlaceInv'
  BY <1>22 DEF CMakeBuild, Goto, repo, count, TypeOK, Job, PlaceInv, Placed, LookupSteps,
         GitSteps, ReleaseSteps, NamedSteps, ShortSteps, LongSteps, ManifestSteps,
         AttributeSteps, AddSteps
<1>23. ASSUME UnlinkVf PROVE PlaceInv'
  BY <1>23 DEF UnlinkVf, Goto, Abort, Idle, WriteVf, repo, count, TypeOK, Job, PlaceInv,
         Placed, LookupSteps, GitSteps, ReleaseSteps, NamedSteps, ShortSteps, LongSteps,
         ManifestSteps, AttributeSteps, AddSteps
<1>24. ASSUME OpenVf PROVE PlaceInv'
  BY <1>24
     DEF OpenVf, Goto, WriteVf, repo, count, TypeOK, Job, PlaceInv, Placed, LookupSteps,
         GitSteps, ReleaseSteps, NamedSteps, ShortSteps, LongSteps, ManifestSteps,
         AttributeSteps, AddSteps
<1>25. ASSUME WriteShort PROVE PlaceInv'
  BY <1>25 DEF WriteShort, Goto, WriteVf, repo, count, TypeOK, Job, PlaceInv, Placed,
         LookupSteps, GitSteps, ReleaseSteps, NamedSteps, ShortSteps, LongSteps,
         ManifestSteps, AttributeSteps, AddSteps
<1>26. ASSUME BuildExe PROVE PlaceInv'
  BY <1>26 DEF BuildExe, Goto, AfterFreeze, repo, count, TypeOK, Job, PlaceInv, Placed,
         LookupSteps, GitSteps, ReleaseSteps, NamedSteps, ShortSteps, LongSteps,
         ManifestSteps, AttributeSteps, AddSteps
<1>27. ASSUME Py2exe PROVE PlaceInv'
  BY <1>27 DEF Py2exe, Goto, AfterFreeze, repo, count, TypeOK, Job, PlaceInv, Placed,
         LookupSteps, GitSteps, ReleaseSteps, NamedSteps, ShortSteps, LongSteps,
         ManifestSteps, AttributeSteps, AddSteps
<1>28. ASSUME OpenLong PROVE PlaceInv'
  BY <1>28 DEF OpenLong, Goto, WriteVf, repo, count, TypeOK, Job, PlaceInv, Placed,
         LookupSteps, GitSteps, ReleaseSteps, NamedSteps, ShortSteps, LongSteps,
         ManifestSteps, AttributeSteps, AddSteps
<1>29. ASSUME WriteLong PROVE PlaceInv'
  BY <1>29 DEF WriteLong, Goto, WriteVf, repo, count, TypeOK, Job, PlaceInv, Placed,
         LookupSteps, GitSteps, ReleaseSteps, NamedSteps, ShortSteps, LongSteps,
         ManifestSteps, AttributeSteps, AddSteps
<1>30. ASSUME ReadConfig PROVE PlaceInv'
  BY <1>30 DEF ReadConfig, Goto, HasConfig, repo, count, TypeOK, Job, PlaceInv, Placed,
         LookupSteps, GitSteps, ReleaseSteps, NamedSteps, ShortSteps, LongSteps,
         ManifestSteps, AttributeSteps, AddSteps
<1>31. ASSUME WriteSnippet PROVE PlaceInv'
  BY <1>31 DEF WriteSnippet, Goto, Snippet, repo, count, TypeOK, Job, PlaceInv, Placed,
         LookupSteps, GitSteps, ReleaseSteps, NamedSteps, ShortSteps, LongSteps,
         ManifestSteps, AttributeSteps, AddSteps
<1>32. ASSUME WriteManifest PROVE PlaceInv'
  BY <1>32
     DEF WriteManifest, Goto, repo, count, TypeOK, Job, PlaceInv, Placed, LookupSteps,
         GitSteps, ReleaseSteps, NamedSteps, ShortSteps, LongSteps, ManifestSteps,
         AttributeSteps, AddSteps
<1>33. ASSUME OpenAttributes PROVE PlaceInv'
  BY <1>33
     DEF OpenAttributes, Goto, repo, count, TypeOK, Job, PlaceInv, Placed, LookupSteps,
         GitSteps, ReleaseSteps, NamedSteps, ShortSteps, LongSteps, ManifestSteps,
         AttributeSteps, AddSteps
<1>34. ASSUME WriteAttributes PROVE PlaceInv'
  BY <1>34
     DEF WriteAttributes, Goto, repo, count, TypeOK, Job, PlaceInv, Placed, LookupSteps,
         GitSteps, ReleaseSteps, NamedSteps, ShortSteps, LongSteps, ManifestSteps,
         AttributeSteps, AddSteps
<1>35. ASSUME GitAdd PROVE PlaceInv'
  BY <1>35 DEF GitAdd, repo, count, TypeOK, Job, PlaceInv, Placed, LookupSteps, GitSteps,
         ReleaseSteps, NamedSteps, ShortSteps, LongSteps, ManifestSteps, AttributeSteps,
         AddSteps
<1>36. ASSUME Exit PROVE PlaceInv'
  BY <1>36
     DEF Exit, ScanSetupPy, repo, count, TypeOK, Job, PlaceInv, Placed, LookupSteps,
         GitSteps, ReleaseSteps, NamedSteps, ShortSteps, LongSteps, ManifestSteps,
         AttributeSteps, AddSteps
<1>37. ASSUME End PROVE PlaceInv'
  BY <1>37
     DEF End, Idle, repo, count, TypeOK, Job, PlaceInv, Placed, LookupSteps, GitSteps,
         ReleaseSteps, NamedSteps, ShortSteps, LongSteps, ManifestSteps, AttributeSteps,
         AddSteps
<1>38. ASSUME Kill PROVE PlaceInv'
  BY <1>38
     DEF Kill, Abort, Idle, repo, count, TypeOK, Job, PlaceInv, Placed, LookupSteps,
         GitSteps, ReleaseSteps, NamedSteps, ShortSteps, LongSteps, ManifestSteps,
         AttributeSteps, AddSteps
<1>39. ASSUME UNCHANGED vars PROVE PlaceInv'
  BY <1>39 DEF vars, repo, count, TypeOK, Job, PlaceInv, Placed, LookupSteps, GitSteps,
         ReleaseSteps, NamedSteps, ShortSteps, LongSteps, ManifestSteps, AttributeSteps,
         AddSteps
<1> QED
  BY <1>1, <1>2, <1>3, <1>4, <1>5, <1>6, <1>7, <1>8, <1>9, <1>10, <1>11, <1>12, <1>13,
     <1>14, <1>15, <1>16, <1>17, <1>18, <1>19, <1>20, <1>21, <1>22, <1>23, <1>24, <1>25,
     <1>26, <1>27, <1>28, <1>29, <1>30, <1>31, <1>32, <1>33, <1>34, <1>35, <1>36, <1>37,
     <1>38, <1>39
     DEF Next, Developer, Lookup, Release, FreezeSteps, Setup, Rest

\* Where a lookup goes on when it does not go on with git.
LEMMA LookupGoesTo ==
  ASSUME TypeOK, PlaceInv, Require \/ ReadVersionFile \/ GitFails \/ GitShow
  PROVE  job'.at \in {"idle", "read", "describe", "print", "egg", "tree", "unlink"}
<1>0. job.at \in LookupSteps
  BY DEF Require, ReadVersionFile, GitFails, GitShow, LookupSteps, GitSteps
<1>1. CASE Require
  BY <1>0, <1>1, PlacedAnswered DEF Require, Goto, TypeOK, Job
<1>2. CASE ReadVersionFile
  BY <1>0, <1>2, PlacedAnswered, PlacedIdle
     DEF ReadVersionFile, Answer, Abort, Goto, TypeOK, Job
<1>3. CASE GitFails
  <2>1. Answered(Unknown) \in Job
    BY AnsweredType, ConstantTypes DEF TypeOK
  <2> QED
    BY <1>0, <1>3, <2>1, PlacedAnswered, PlacedIdle DEF GitFails, Abort, Job
<1>4. CASE GitShow
  BY <1>0, <1>4, PlacedAnswered DEF GitShow, Answer
<1> QED
  BY <1>1, <1>2, <1>3, <1>4

\* write_to_version_file() writes to a file of its own.
LEMMA LinkStep ==
  ASSUME TypeOK, PlaceInv, LinkInv, [Next]_vars
  PROVE  LinkInv'
<1>1. ASSUME Edit PROVE LinkInv'
  BY <1>1 DEF Edit, Disturb, repo, count, TypeOK, Job, LinkInv
<1>2. ASSUME Configure PROVE LinkInv'
  BY <1>2 DEF Configure, Disturb, repo, count, TypeOK, Job, LinkInv
<1>3. ASSUME Commit PROVE LinkInv'
  BY <1>3 DEF Commit, Disturb, repo, count, TypeOK, Job, LinkInv
<1>4. ASSUME NEW t \in Tags, Tag(t) PROVE LinkInv'
  BY <1>4 DEF Tag, Disturb, repo, count, TypeOK, Job, LinkInv
<1>5. ASSUME NEW c \in DOMAIN commits, Checkout(c) PROVE LinkInv'
  BY <1>5 DEF Checkout, Disturb, repo, count, TypeOK, Job, LinkInv
<1>6. ASSUME Start PROVE LinkInv'
  BY <1>6 DEF Start, Idle, repo, count, TypeOK, Job, LinkInv
<1>7. ASSUME Require PROVE LinkInv'
  BY <1>7, LookupGoesTo DEF LinkInv
<1>8. ASSUME ReadVersionFile PROVE LinkInv'
  BY <1>8, LookupGoesTo DEF LinkInv
<1>9. ASSUME GitFails PROVE LinkInv'
  BY <1>9, LookupGoesTo DEF LinkInv
<1>10. ASSUME GitDescribe PROVE LinkInv'
  BY <1>10 DEF GitDescribe, repo, count, TypeOK, Job, LinkInv
<1>11. ASSUME GitHead PROVE LinkInv'
  BY <1>11 DEF GitHead, Revision, repo, count, TypeOK, Job, LinkInv
<1>12. ASSUME GitCount PROVE LinkInv'
  BY <1>12 DEF GitCount, repo, count, TypeOK, Job, LinkInv
<1>13. ASSUME GitShow PROVE LinkInv'
  BY <1>13, LookupGoesTo DEF LinkInv
<1>14. ASSUME PrintVersion PROVE LinkInv'
  BY <1>14 DEF PrintVersion, Goto, repo, count, TypeOK, Job, LinkInv
<1>15. ASSUME WriteEggInfo PROVE LinkInv'
  BY <1>15 DEF WriteEggInfo, repo, count, TypeOK, Job, LinkInv
<1>16. ASSUME MakeReleaseTree PROVE LinkInv'
  BY <1>16 DEF MakeReleaseTree, Goto, repo, count, TypeOK, Job, LinkInv
<1>17. ASSUME BuildPy PROVE LinkInv'
  BY <1>17 DEF BuildPy, Goto, repo, count, TypeOK, Job, LinkInv
<1>18. ASSUME UnlinkRel PROVE LinkInv'
  <2>1. CASE Abort
    BY <2>1, PlacedIdle DEF Abort, LinkInv
  <2>2. CASE rel' = Unlinked(rel)
    <3>1. rel \in [files: Files, linked: BOOLEAN]
      BY DEF TypeOK
    <3>2. rel'.linked = FALSE
      BY <2>2, <3>1 DEF Unlinked
    <3> QED
      BY <3>2 DEF LinkInv
  <2> QED
    BY <1>18, <2>1, <2>2 DEF UnlinkRel
<1>19. ASSUME OpenRel PROVE LinkInv'
  BY <1>19 DEF OpenRel, Goto, WriteThrough, repo, count, TypeOK, Job, LinkInv
<1>20. ASSUME WriteRel PROVE LinkInv'
  BY <1>20 DEF WriteRel, Goto, WriteThrough, repo, count, TypeOK, Job, LinkInv
<1>21. ASSUME MakeArchive PROVE LinkInv'
  BY <1>21 DEF MakeArchive, Goto, repo, count, TypeOK, Job, LinkInv
<1>22. ASSUME CMakeBuild PROVE LinkInv'
  BY <1>22 DEF CMakeBuild, Goto, repo, count, TypeOK, Job, LinkInv
<1>23. ASSUME UnlinkVf PROVE LinkInv'
  BY <1>23 DEF UnlinkVf, Goto, Abort, Idle, WriteVf, repo, count, TypeOK, Job, LinkInv
<1>24. ASSUME OpenVf PROVE LinkInv'
  BY <1>24 DEF OpenVf, Goto, WriteVf, repo, count, TypeOK, Job, LinkInv
<1>25. ASSUME WriteShort PROVE LinkInv'
  BY <1>25 DEF WriteShort, Goto, WriteVf, repo, count, TypeOK, Job, LinkInv
<1>26. ASSUME BuildExe PROVE LinkInv'
  BY <1>26 DEF BuildExe, Goto, AfterFreeze, repo, count, TypeOK, Job, LinkInv
<1>27. ASSUME Py2exe PROVE LinkInv'
  BY <1>27 DEF Py2exe, Goto, AfterFreeze, repo, count, TypeOK, Job, LinkInv
<1>28. ASSUME OpenLong PROVE LinkInv'
  BY <1>28 DEF OpenLong, Goto, WriteVf, repo, count, TypeOK, Job, LinkInv
<1>29. ASSUME WriteLong PROVE LinkInv'
  BY <1>29 DEF WriteLong, Goto, WriteVf, repo, count, TypeOK, Job, LinkInv
<1>30. ASSUME ReadConfig PROVE LinkInv'
  BY <1>30 DEF ReadConfig, Goto, HasConfig, repo, count, TypeOK, Job, LinkInv
<1>31. ASSUME WriteSnippet PROVE LinkInv'
  BY <1>31 DEF WriteSnippet, Goto, Snippet, repo, count, TypeOK, Job, LinkInv
<1>32. ASSUME WriteManifest PROVE LinkInv'
  BY <1>32 DEF WriteManifest, Goto, repo, count, TypeOK, Job, LinkInv
<1>33. ASSUME OpenAttributes PROVE LinkInv'
  BY <1>33 DEF OpenAttributes, Goto, repo, count, TypeOK, Job, LinkInv
<1>34. ASSUME WriteAttributes PROVE LinkInv'
  BY <1>34 DEF WriteAttributes, Goto, repo, count, TypeOK, Job, LinkInv
<1>35. ASSUME GitAdd PROVE LinkInv'
  BY <1>35 DEF GitAdd, repo, count, TypeOK, Job, LinkInv
<1>36. ASSUME Exit PROVE LinkInv'
  BY <1>36 DEF Exit, ScanSetupPy, repo, count, TypeOK, Job, LinkInv
<1>37. ASSUME End PROVE LinkInv'
  BY <1>37 DEF End, Idle, repo, count, TypeOK, Job, LinkInv
<1>38. ASSUME Kill PROVE LinkInv'
  BY <1>38 DEF Kill, Abort, Idle, repo, count, TypeOK, Job, LinkInv
<1>39. ASSUME UNCHANGED vars PROVE LinkInv'
  BY <1>39 DEF vars, repo, count, TypeOK, Job, LinkInv
<1> QED
  BY <1>1, <1>2, <1>3, <1>4, <1>5, <1>6, <1>7, <1>8, <1>9, <1>10, <1>11, <1>12, <1>13,
     <1>14, <1>15, <1>16, <1>17, <1>18, <1>19, <1>20, <1>21, <1>22, <1>23, <1>24, <1>25,
     <1>26, <1>27, <1>28, <1>29, <1>30, <1>31, <1>32, <1>33, <1>34, <1>35, <1>36, <1>37,
     <1>38, <1>39
     DEF Next, Developer, Lookup, Release, FreezeSteps, Setup, Rest

\* The step of a command that freezes and is through.
Frozen(j) == j.cmd \in {"build_exe", "py2exe"} /\ j.at = "done" /\ j.quiet

\* A step that leaves _version.py and the history alone, and the hand where it is.
LEMMA LongKept ==
  ASSUME LongInv, files'.vf = files.vf, UNCHANGED <<commits, head>>, known \subseteq known',
         "_version.py" \in cut => "_version.py" \in cut',
         InHand => InHand' \/ "_version.py" \in cut',
         Frozen(job') => Frozen(job)
  PROVE  LongInv'
<1>1. Present(commits[head])' = Present(commits[head])
  BY DEF Present
<1> QED
  BY <1>1 DEF LongInv, SourceFileIsLong, Frozen

\* An aborted command leaves its hand's file in cut.
LEMMA LongAborted ==
  ASSUME LongInv, Abort
  PROVE  LongInv'
<1>1. ~Frozen(job')
  BY DEF Abort, Idle, Frozen
<1>2. /\ files'.vf = files.vf /\ UNCHANGED <<commits, head>> /\ known \subseteq known'
      /\ cut \subseteq cut' /\ (InHand => "_version.py" \in cut')
  BY DEF Abort, repo
<1> QED
  BY <1>1, <1>2, LongKept

\* The long file comes back unless the command is cut.
LEMMA LongStep ==
  ASSUME TypeOK, PlaceInv, LinkInv, LongInv, [Next]_vars
  PROVE  LongInv'
<1>f. files \in Files /\ rel.files \in Files /\ job \in Job /\ known \subseteq Names
  BY DEF TypeOK
<1>d. ASSUME NEW heads \in SUBSET (1..MaxCommits), Disturb(heads)
      PROVE  /\ job'.cmd = job.cmd /\ job'.at = job.at /\ (InHand <=> InHand')
             /\ Frozen(job') => Frozen(job)
             /\ Frozen(job') => job.cmd = "none"
  BY <1>f, <1>d DEF Disturb, Job, InHand, Frozen
<1>1. ASSUME Edit \/ Configure \/ \E t \in Tags : Tag(t) PROVE LongInv'
  <2>1. Disturb({}) /\ UNCHANGED <<commits, head, known, cut>> /\ files'.vf = files.vf
    BY <1>1, <1>f DEF Edit, Configure, Tag, repo, Files
  <2>2. (InHand <=> InHand') /\ (Frozen(job') => Frozen(job))
    BY <1>d, <2>1
  <2> QED
    BY <2>1, <2>2, LongKept
<1>2. ASSUME Commit PROVE LongInv'
  <2>1. Disturb({head + 1}) /\ {head + 1} \subseteq 1..MaxCommits
    BY <1>2, HeadType, VersioneerAssumption DEF Commit, VersioneerAssumption
  <2>2. (InHand <=> InHand') /\ ~Frozen(job')
    BY <1>d, <2>1 DEF Frozen
  <2>3. files'.vf = files.vf /\ cut' = cut
    BY <1>2, <1>f DEF Commit, Files
  <2> DEFINE new == [Tracked EXCEPT !.src = head + 1]
  <2>t. Tracked \in Files
    BY TrackedType
  <2>4. /\ new.vf = Tracked.vf /\ new.man = Tracked.man /\ new.attr = Tracked.attr
    BY <2>t DEF Files
  <2>5. commits'[head'] = new
    BY <1>2, <2>t DEF Commit, TypeOK
  <2>6. /\ Tracked.vf = IF "_version.py" \in Names \ known THEN Absent ELSE files.vf
        /\ Tracked.man = IF "MANIFEST.in" \in Names \ known THEN {} ELSE files.man
        /\ Tracked.attr = IF ".gitattributes" \in Names \ known THEN "absent" ELSE files.attr
    BY TrackedType
  <2>7. Present(new) \subseteq known \cap Present(files)
    BY <2>4, <2>6 DEF Present
  <2>8. known' = known \cap Present(files)
    BY <1>2 DEF Commit
  <2>9. files.vf = new.vf \/ files.vf = Long \/ InHand \/ "_version.py" \in cut
    <3>1. "_version.py" \notin known => commits[head].vf = Absent
      BY DEF LongInv, Present, Names
    <3>2. "_version.py" \in Names
      BY DEF Names
    <3> QED
      BY <2>4, <2>6, <3>1, <3>2 DEF LongInv, SourceFileIsLong
  <2> HIDE DEF new
  <2> QED
    BY <2>2, <2>3, <2>5, <2>7, <2>8, <2>9 DEF LongInv, SourceFileIsLong, Frozen
<1>3. ASSUME NEW c \in DOMAIN commits, Checkout(c) PROVE LongInv'
  <2>1. Disturb({c}) /\ {c} \subseteq 1..MaxCommits
    BY <1>3, HeadType DEF Checkout
  <2>2. (InHand <=> InHand') /\ ~Frozen(job')
    BY <1>d, <2>1 DEF Frozen
  <2>3. commits[c] \in Files /\ commits' = commits /\ head' = c
        /\ known' = Present(commits[c]) /\ cut' = cut \cap Untracked
    BY <1>3 DEF Checkout, TypeOK
  <2>4. files'.vf = IF "_version.py" \in Untracked THEN files.vf ELSE commits[c].vf
    BY <1>3, <1>f, <2>3, MergeType DEF Checkout
  <2>5. CASE "_version.py" \in Untracked
    <3>1. Tracked.vf = Absent /\ files.vf # Absent
      BY <2>5, TrackedType DEF Untracked, Present
    <3>2. commits[head].vf = Absent
      BY <1>3, <3>1 DEF Checkout, IsDirty
    <3> QED
      BY <2>2, <2>3, <2>4, <2>5, <3>1, <3>2 DEF LongInv, SourceFileIsLong, Frozen
  <2>6. CASE "_version.py" \notin Untracked
    BY <2>2, <2>3, <2>4, <2>6 DEF LongInv, SourceFileIsLong, Frozen
  <2> QED
    BY <2>5, <2>6
<1>4. ASSUME Start \/ End PROVE LongInv'
  <2>1. ~InHand /\ ~Frozen(job')
    <3>1. Start => job.at = "idle"
      BY DEF Start, PlaceInv, Placed
    <3>2. ~InHand
      BY <1>4, <3>1 DEF End, InHand
    <3>3. job'.at # "done"
      <4>1. CASE Start
        BY <4>1 DEF Start, Idle
      <4>2. CASE End
        BY <4>2 DEF End, Idle
      <4> QED
        BY <1>4, <4>1, <4>2
    <3> QED
      BY <3>2, <3>3 DEF Frozen
  <2> QED
    BY <1>4, <2>1, LongKept DEF Start, End, repo
<1>5. ASSUME Lookup PROVE LongInv'
  <2>1. job.at \in LookupSteps
    BY <1>5 DEF Lookup, Require, ReadVersionFile, GitFails, GitDescribe, GitHead, GitCount,
                GitShow, LookupSteps, GitSteps
  <2>2. ~InHand
    BY <2>1 DEF LookupSteps, GitSteps, InHand
  <2>3. UNCHANGED <<files, repo>> /\ cut \subseteq cut'
    BY <1>5 DEF Lookup, Require, ReadVersionFile, GitFails, GitDescribe, GitHead, GitCount,
                GitShow, Abort
  <2>4. GitDescribe \/ GitHead \/ GitCount => job'.at # "done"
    BY <1>f DEF GitDescribe, GitHead, GitCount, Job
  <2>5. job'.at # "done"
    BY <1>5, <2>4, LookupGoesTo DEF Lookup
  <2> QED
    BY <2>2, <2>3, <2>5, LongKept DEF Frozen, repo
<1>6. ASSUME Release PROVE LongInv'
  <2>1. job.at \in ReleaseSteps \union {"print"}
    BY <1>6 DEF Release, PrintVersion, WriteEggInfo, MakeReleaseTree, BuildPy, UnlinkRel,
                OpenRel, WriteRel, MakeArchive, CMakeBuild, ReleaseSteps, NamedSteps
  <2>2. ~InHand /\ job.cmd \in {"version", "sdist", "build"}
    BY <2>1 DEF ReleaseSteps, NamedSteps, InHand, PlaceInv, Placed
  <2>3. Abort \/ job'.cmd = job.cmd
    BY <1>6, <1>f
       DEF Release, PrintVersion, WriteEggInfo, MakeReleaseTree, BuildPy, UnlinkRel,
           OpenRel, WriteRel, MakeArchive, CMakeBuild, Goto, Job
  <2>4. Abort \/ UNCHANGED <<files, repo, cut>>
    BY <1>6, LinkInv
       DEF Release, PrintVersion, WriteEggInfo, MakeReleaseTree, BuildPy, UnlinkRel,
           OpenRel, WriteRel, WriteThrough, MakeArchive, CMakeBuild, LinkInv
  <2> QED
    BY <2>2, <2>3, <2>4, LongAborted, LongKept DEF Frozen, repo
<1>7. ASSUME UnlinkVf \/ OpenVf \/ WriteShort \/ BuildExe \/ Py2exe \/ OpenLong PROVE LongInv'
  <2>1. job.at = "openLong" => job'.at = "writeLong" \/ Abort
    BY <1>7, <1>f DEF UnlinkVf, OpenVf, WriteShort, BuildExe, Py2exe, OpenLong, Goto, Job
  <2>2. \/ Abort
        \/ /\ job'.at \in {"open", "write", "freeze", "unlinkShort", "openLong", "writeLong"}
           /\ job'.cmd = job.cmd /\ UNCHANGED <<repo, cut>>
           /\ job'.at = "openLong" => job.cmd # "setup"
    BY <1>7, <1>f
       DEF UnlinkVf, OpenVf, WriteShort, BuildExe, Py2exe, OpenLong, Goto, Job, AfterFreeze,
           PlaceInv, Placed, ShortSteps
  <2>3. CASE ~Abort
    <3>1. InHand' /\ ~Frozen(job')
      BY <2>2, <2>3 DEF InHand, Frozen
    <3>2. UNCHANGED repo
      BY <2>2, <2>3
    <3> QED
      BY <3>1, <3>2 DEF LongInv, SourceFileIsLong, Frozen, repo, Present
  <2> QED
    BY <2>3, LongAborted
<1>8. ASSUME WriteLong PROVE LongInv'
  <2>1. files'.vf = Long /\ UNCHANGED <<commits, head, known>>
    BY <1>8, <1>f DEF WriteLong, WriteVf, repo, Files
  <2> QED
    BY <2>1 DEF LongInv, SourceFileIsLong, Present
<1>9. ASSUME Setup PROVE LongInv'
  <2>1. job.cmd = "setup" /\ ~InHand
    BY <1>9
       DEF Setup, ReadConfig, WriteSnippet, WriteManifest, OpenAttributes, WriteAttributes,
           GitAdd, Exit, PlaceInv, Placed, ManifestSteps, AttributeSteps, AddSteps, InHand
  <2>2. job'.cmd = job.cmd
    BY <1>9, <1>f
       DEF Setup, ReadConfig, WriteSnippet, WriteManifest, OpenAttributes, WriteAttributes,
           GitAdd, Exit, Goto, Job
  <2>3. files'.vf = files.vf
    BY <1>9, <1>f
       DEF Setup, ReadConfig, WriteSnippet, WriteManifest, OpenAttributes, WriteAttributes,
           GitAdd, Exit, Files
  <2>4. UNCHANGED <<commits, head>> /\ known \subseteq known'
        /\ ("_version.py" \in cut => "_version.py" \in cut')
    BY <1>9
       DEF Setup, ReadConfig, WriteSnippet, WriteManifest, OpenAttributes, WriteAttributes,
           GitAdd, Exit, repo
  <2> QED
    BY <2>1, <2>2, <2>3, <2>4, LongKept DEF Frozen
<1>10. Kill => LongInv'
  BY LongAborted DEF Kill
<1>11. UNCHANGED vars => LongInv'
  BY DEF vars, repo, LongInv, SourceFileIsLong, InHand, Present
<1> QED
  BY <1>1, <1>2, <1>3, <1>4, <1>5, <1>6, <1>7, <1>8, <1>9, <1>10, <1>11
     DEF Next, Developer, FreezeSteps, Rest

\* What git said is about commits that were HEAD, also while HEAD moves.
LEMMA LookupStep ==
  ASSUME TypeOK, PlaceInv, LookupInv, [Next]_vars
  PROVE  LookupInv'
<1>1. ASSUME Edit PROVE LookupInv'
  BY <1>1 DEF Edit, Disturb, repo, count, TypeOK, Job, LookupInv
<1>2. ASSUME Configure PROVE LookupInv'
  BY <1>2 DEF Configure, Disturb, repo, count, TypeOK, Job, LookupInv
<1>3. ASSUME Commit PROVE LookupInv'
  <2>1. CASE job.cmd = "none"
    BY <1>3, <2>1 DEF Commit, Disturb, PlaceInv, Placed, LookupInv
  <2>2. CASE job.cmd # "none"
    BY <1>3, <2>2 DEF Commit, Disturb, TypeOK, Job, LookupInv
  <2> QED
    BY <2>1, <2>2
<1>4. ASSUME NEW t \in Tags, Tag(t) PROVE LookupInv'
  BY <1>4 DEF Tag, Disturb, repo, count, TypeOK, Job, LookupInv
<1>5. ASSUME NEW c \in DOMAIN commits, Checkout(c) PROVE LookupInv'
  <2>1. CASE job.cmd = "none"
    BY <1>5, <2>1 DEF Checkout, Disturb, PlaceInv, Placed, LookupInv
  <2>2. CASE job.cmd # "none"
    BY <1>5, <2>2 DEF Checkout, Disturb, TypeOK, Job, LookupInv
  <2> QED
    BY <2>1, <2>2
<1>6. ASSUME Start PROVE LookupInv'
  BY <1>6 DEF Start, Idle, repo, count, TypeOK, Job, LookupInv
<1>7. ASSUME Require PROVE LookupInv'
  BY <1>7, LookupGoesTo DEF LookupInv
<1>8. ASSUME ReadVersionFile PROVE LookupInv'
  BY <1>8, LookupGoesTo DEF LookupInv
<1>9. ASSUME GitFails PROVE LookupInv'
  BY <1>9, LookupGoesTo DEF LookupInv
<1>10. ASSUME GitDescribe PROVE LookupInv'
  <2>1. head \in Nat /\ tagged \in [Tags -> Nat] /\ IsDirty \in BOOLEAN
    BY DEF TypeOK, IsDirty
  <2>2. job'.at = "head" /\ job'.out = Describe(head, tagged, IsDirty)
    BY <1>10 DEF GitDescribe, TypeOK, Job
  <2> QED
    BY <1>10, <2>1, <2>2, DescribeType DEF GitDescribe, repo, LookupInv
<1>11. ASSUME GitHead PROVE LookupInv'
  BY <1>11 DEF GitHead, Revision, repo, count, TypeOK, Job, LookupInv
<1>12. ASSUME GitCount PROVE LookupInv'
  BY <1>12 DEF GitCount, repo, count, TypeOK, Job, LookupInv
<1>13. ASSUME GitShow PROVE LookupInv'
  BY <1>13, LookupGoesTo DEF LookupInv
<1>14. ASSUME PrintVersion PROVE LookupInv'
  BY <1>14 DEF PrintVersion, Goto, repo, count, TypeOK, Job, LookupInv
<1>15. ASSUME WriteEggInfo PROVE LookupInv'
  BY <1>15 DEF WriteEggInfo, repo, count, TypeOK, Job, LookupInv
<1>16. ASSUME MakeReleaseTree PROVE LookupInv'
  BY <1>16 DEF MakeReleaseTree, Goto, repo, count, TypeOK, Job, LookupInv
<1>17. ASSUME BuildPy PROVE LookupInv'
  BY <1>17 DEF BuildPy, Goto, repo, count, TypeOK, Job, LookupInv
<1>18. ASSUME UnlinkRel PROVE LookupInv'
  BY <1>18 DEF UnlinkRel, Goto, Abort, Idle, Unlinked, repo, count, TypeOK, Job, LookupInv
<1>19. ASSUME OpenRel PROVE LookupInv'
  BY <1>19 DEF OpenRel, Goto, WriteThrough, repo, count, TypeOK, Job, LookupInv
<1>20. ASSUME WriteRel PROVE LookupInv'
  BY <1>20 DEF WriteRel, Goto, WriteThrough, repo, count, TypeOK, Job, LookupInv
<1>21. ASSUME MakeArchive PROVE LookupInv'
  BY <1>21 DEF MakeArchive, Goto, repo, count, TypeOK, Job, LookupInv
<1>22. ASSUME CMakeBuild PROVE LookupInv'
  BY <1>22 DEF CMakeBuild, Goto, repo, count, TypeOK, Job, LookupInv
<1>23. ASSUME UnlinkVf PROVE LookupInv'
  BY <1>23 DEF UnlinkVf, Goto, Abort, Idle, WriteVf, repo, count, TypeOK, Job, LookupInv
<1>24. ASSUME OpenVf PROVE LookupInv'
  BY <1>24 DEF OpenVf, Goto, WriteVf, repo, count, TypeOK, Job, LookupInv
<1>25. ASSUME WriteShort PROVE LookupInv'
  BY <1>25 DEF WriteShort, Goto, WriteVf, repo, count, TypeOK, Job, LookupInv
<1>26. ASSUME BuildExe PROVE LookupInv'
  BY <1>26 DEF BuildExe, Goto, AfterFreeze, repo, count, TypeOK, Job, LookupInv
<1>27. ASSUME Py2exe PROVE LookupInv'
  BY <1>27 DEF Py2exe, Goto, AfterFreeze, repo, count, TypeOK, Job, LookupInv
<1>28. ASSUME OpenLong PROVE LookupInv'
  BY <1>28 DEF OpenLong, Goto, WriteVf, repo, count, TypeOK, Job, LookupInv
<1>29. ASSUME WriteLong PROVE LookupInv'
  BY <1>29 DEF WriteLong, Goto, WriteVf, repo, count, TypeOK, Job, LookupInv
<1>30. ASSUME ReadConfig PROVE LookupInv'
  BY <1>30 DEF ReadConfig, Goto, HasConfig, repo, count, TypeOK, Job, LookupInv
<1>31. ASSUME WriteSnippet PROVE LookupInv'
  BY <1>31 DEF WriteSnippet, Goto, Snippet, repo, count, TypeOK, Job, LookupInv
<1>32. ASSUME WriteManifest PROVE LookupInv'
  BY <1>32 DEF WriteManifest, Goto, repo, count, TypeOK, Job, LookupInv
<1>33. ASSUME OpenAttributes PROVE LookupInv'
  BY <1>33 DEF OpenAttributes, Goto, repo, count, TypeOK, Job, LookupInv
<1>34. ASSUME WriteAttributes PROVE LookupInv'
  BY <1>34 DEF WriteAttributes, Goto, repo, count, TypeOK, Job, LookupInv
<1>35. ASSUME GitAdd PROVE LookupInv'
  BY <1>35 DEF GitAdd, repo, count, TypeOK, Job, LookupInv
<1>36. ASSUME Exit PROVE LookupInv'
  BY <1>36 DEF Exit, ScanSetupPy, repo, count, TypeOK, Job, LookupInv
<1>37. ASSUME End PROVE LookupInv'
  BY <1>37 DEF End, Idle, repo, count, TypeOK, Job, LookupInv
<1>38. ASSUME Kill PROVE LookupInv'
  BY <1>38 DEF Kill, Abort, Idle, repo, count, TypeOK, Job, LookupInv
<1>39. ASSUME UNCHANGED vars PROVE LookupInv'
  BY <1>39 DEF vars, repo, count, TypeOK, Job, LookupInv
<1> QED
  BY <1>1, <1>2, <1>3, <1>4, <1>5, <1>6, <1>7, <1>8, <1>9, <1>10, <1>11, <1>12, <1>13,
     <1>14, <1>15, <1>16, <1>17, <1>18, <1>19, <1>20, <1>21, <1>22, <1>23, <1>24, <1>25,
     <1>26, <1>27, <1>28, <1>29, <1>30, <1>31, <1>32, <1>33, <1>34, <1>35, <1>36, <1>37,
     <1>38, <1>39
     DEF Next, Developer, Lookup, Release, FreezeSteps, Setup, Rest

\* A lookup is aborted or leaves the rest of the job, and the checkout, alone.
LEMMA LookupKeeps ==
  ASSUME TypeOK, PlaceInv, Require \/ ReadVersionFile \/ GitFails \/ GitShow
  PROVE  /\ job.at \in LookupSteps /\ job.cmd \in Lookers
         /\ UNCHANGED <<files, repo, egg, dist>>
         /\ \/ job' = Idle
            \/ job'.cmd = job.cmd /\ job'.ok = job.ok
<1>0. job.at \in LookupSteps /\ job.cmd \in Lookers /\ job \in Job
  <2>1. job.at \in LookupSteps
    BY DEF Require, ReadVersionFile, GitFails, GitShow, LookupSteps, GitSteps
  <2> QED
    BY <2>1, LookerAt
<1>a. \A s \in Steps : Goto(s) => job'.cmd = job.cmd /\ job'.ok = job.ok
  BY <1>0 DEF Goto, Job
<1>b. "read" \in Steps /\ "describe" \in Steps
  BY DEF Steps
<1>c. UNCHANGED <<files, repo, egg, dist>>
  BY DEF Require, ReadVersionFile, GitFails, GitShow, Abort
<1>d. \A v : /\ Answered(v).cmd = job.cmd /\ Answered(v).ok = job.ok
             /\ Named(v).cmd = job.cmd /\ Named(v).ok = job.ok
  BY <1>0, AnsweredFields, NamedFields
<1>1. CASE Require
  <2>1. Goto("read") \/ \E n \in egg : job' = Named(n)
    BY <1>1 DEF Require
  <2> QED
    BY <1>0, <1>a, <1>b, <1>c, <1>d, <2>1
<1>2. CASE ReadVersionFile
  <2>1. job' = Idle \/ Goto("describe") \/ \E v : job' = Answered(v)
    BY <1>2 DEF ReadVersionFile, Answer, Abort
  <2> QED
    BY <1>0, <1>a, <1>b, <1>c, <1>d, <2>1
<1>3. CASE GitFails
  <2>1. Answered(Unknown) \in Job
    BY AnsweredType, ConstantTypes DEF TypeOK
  <2>2. job' = Idle \/ job' = [Answered(Unknown) EXCEPT !.quiet = FALSE]
    BY <1>3 DEF GitFails, Abort
  <2>3. /\ [Answered(Unknown) EXCEPT !.quiet = FALSE].cmd = Answered(Unknown).cmd
        /\ [Answered(Unknown) EXCEPT !.quiet = FALSE].ok = Answered(Unknown).ok
    BY <2>1 DEF Job
  <2> QED
    BY <1>0, <1>c, <1>d, <2>2, <2>3
<1>4. CASE GitShow
  <2>1. \E v : job' = Answered(v)
    BY <1>4 DEF GitShow, Answer
  <2> QED
    BY <1>0, <1>c, <1>d, <2>1
<1> QED
  BY <1>1, <1>2, <1>3, <1>4

\* What is shipped has the short file, with the version of its own lookup.
LEMMA ShortStep ==
  ASSUME UsesCmdclass, TypeOK, PlaceInv, ShortInv, [Next]_vars
  PROVE  ShortInv'
<1>1. ASSUME Edit PROVE ShortInv'
  BY <1>1 DEF Edit, Disturb, repo, count, TypeOK, Job, ShortInv, Finished
<1>2. ASSUME Configure PROVE ShortInv'
  BY <1>2 DEF Configure, Disturb, repo, count, TypeOK, Job, ShortInv, Finished
<1>3. ASSUME Commit PROVE ShortInv'
  BY <1>3 DEF Commit, Disturb, repo, count, TypeOK, Job, ShortInv, Finished
<1>4. ASSUME NEW t \in Tags, Tag(t) PROVE ShortInv'
  BY <1>4 DEF Tag, Disturb, repo, count, TypeOK, Job, ShortInv, Finished
<1>5. ASSUME NEW c \in DOMAIN commits, Checkout(c) PROVE ShortInv'
  BY <1>5 DEF Checkout, Disturb, repo, count, TypeOK, Job, ShortInv, Finished
<1>6. ASSUME Start PROVE ShortInv'
  BY <1>6 DEF Start, Idle, repo, count, TypeOK, Job, ShortInv, Finished
<1>7. ASSUME Require PROVE ShortInv'
  BY <1>7, LookupGoesTo, LookupKeeps DEF ShortInv
<1>8. ASSUME ReadVersionFile PROVE ShortInv'
  BY <1>8, LookupGoesTo, LookupKeeps DEF ShortInv
<1>9. ASSUME GitFails PROVE ShortInv'
  BY <1>9, LookupGoesTo, LookupKeeps DEF ShortInv
<1>10. ASSUME GitDescribe PROVE ShortInv'
  BY <1>10 DEF GitDescribe, repo, count, TypeOK, Job, ShortInv, Finished
<1>11. ASSUME GitHead PROVE ShortInv'
  BY <1>11 DEF GitHead, Revision, repo, count, TypeOK, Job, ShortInv, Finished
<1>12. ASSUME GitCount PROVE ShortInv'
  BY <1>12 DEF GitCount, repo, count, TypeOK, Job, ShortInv, Finished
<1>13. ASSUME GitShow PROVE ShortInv'
  BY <1>13, LookupGoesTo, LookupKeeps DEF ShortInv
<1>14. ASSUME PrintVersion PROVE ShortInv'
  BY <1>14 DEF PrintVersion, Goto, repo, count, TypeOK, Job, ShortInv, Finished
<1>15. ASSUME WriteEggInfo PROVE ShortInv'
  BY <1>15 DEF WriteEggInfo, repo, count, TypeOK, Job, ShortInv, Finished
<1>16. ASSUME MakeReleaseTree PROVE ShortInv'
  BY <1>16 DEF MakeReleaseTree, Goto, repo, count, TypeOK, Job, ShortInv, Finished
<1>17. ASSUME BuildPy PROVE ShortInv'
  BY <1>17 DEF BuildPy, Goto, repo, count, TypeOK, Job, ShortInv, Finished
<1>18. ASSUME UnlinkRel PROVE ShortInv'
  BY <1>18
     DEF UnlinkRel, Goto, Abort, Idle, Unlinked, repo, count, TypeOK, Job, ShortInv,
         Finished
<1>19. ASSUME OpenRel PROVE ShortInv'
  BY <1>19 DEF OpenRel, Goto, WriteThrough, repo, count, TypeOK, Job, ShortInv, Finished
<1>20. ASSUME WriteRel PROVE ShortInv'
  <2>1. rel \in [files: Files, linked: BOOLEAN] /\ job'.ver = job.ver
    BY <1>20 DEF WriteRel, Goto, TypeOK, Job
  <2>2. rel'.files.vf = Short(job.ver)
    BY <1>20, <2>1 DEF WriteRel, WriteThrough, Files
  <2> QED
    BY <1>20, <2>1, <2>2 DEF WriteRel, ShortInv
<1>21. ASSUME MakeArchive PROVE ShortInv'
  BY <1>21 DEF MakeArchive, Goto, repo, count, TypeOK, Job, ShortInv, Finished
<1>22. ASSUME CMakeBuild PROVE ShortInv'
  BY <1>22 DEF CMakeBuild, Goto, repo, count, TypeOK, Job, ShortInv, Finished
<1>23. ASSUME UnlinkVf PROVE ShortInv'
  BY <1>23 DEF UnlinkVf, Goto, Abort, Idle, WriteVf, repo, count, TypeOK, Job, ShortInv,
         Finished
<1>24. ASSUME OpenVf PROVE ShortInv'
  BY <1>24 DEF OpenVf, Goto, WriteVf, repo, count, TypeOK, Job, ShortInv, Finished
<1>25. ASSUME WriteShort PROVE ShortInv'
  BY <1>25 DEF WriteShort, Goto, WriteVf, repo, count, TypeOK, Job, ShortInv, Finished
<1>26. ASSUME BuildExe PROVE ShortInv'
  BY <1>26 DEF BuildExe, Goto, AfterFreeze, repo, count, TypeOK, Job, ShortInv, Finished
<1>27. ASSUME Py2exe PROVE ShortInv'
  BY <1>27 DEF Py2exe, Goto, AfterFreeze, repo, count, TypeOK, Job, ShortInv, Finished
<1>28. ASSUME OpenLong PROVE ShortInv'
  BY <1>28 DEF OpenLong, Goto, WriteVf, repo, count, TypeOK, Job, ShortInv, Finished
<1>29. ASSUME WriteLong PROVE ShortInv'
  BY <1>29 DEF WriteLong, Goto, WriteVf, repo, count, TypeOK, Job, ShortInv, Finished
<1>30. ASSUME ReadConfig PROVE ShortInv'
  BY <1>30 DEF ReadConfig, Goto, HasConfig, repo, count, TypeOK, Job, ShortInv, Finished
<1>31. ASSUME WriteSnippet PROVE ShortInv'
  BY <1>31 DEF WriteSnippet, Goto, Snippet, repo, count, TypeOK, Job, ShortInv, Finished
<1>32. ASSUME WriteManifest PROVE ShortInv'
  BY <1>32 DEF WriteManifest, Goto, repo, count, TypeOK, Job, ShortInv, Finished
<1>33. ASSUME OpenAttributes PROVE ShortInv'
  BY <1>33 DEF OpenAttributes, Goto, repo, count, TypeOK, Job, ShortInv, Finished
<1>34. ASSUME WriteAttributes PROVE ShortInv'
  BY <1>34 DEF WriteAttributes, Goto, repo, count, TypeOK, Job, ShortInv, Finished
<1>35. ASSUME GitAdd PROVE ShortInv'
  BY <1>35 DEF GitAdd, repo, count, TypeOK, Job, ShortInv, Finished
<1>36. ASSUME Exit PROVE ShortInv'
  BY <1>36 DEF Exit, ScanSetupPy, repo, count, TypeOK, Job, ShortInv, Finished
<1>37. ASSUME End PROVE ShortInv'
  BY <1>37 DEF End, Idle, repo, count, TypeOK, Job, ShortInv, Finished
<1>38. ASSUME Kill PROVE ShortInv'
  BY <1>38 DEF Kill, Abort, Idle, repo, count, TypeOK, Job, ShortInv, Finished
<1>39. ASSUME UNCHANGED vars PROVE ShortInv'
  BY <1>39 DEF vars, repo, count, TypeOK, Job, ShortInv, Finished
<1> QED
  BY <1>1, <1>2, <1>3, <1>4, <1>5, <1>6, <1>7, <1>8, <1>9, <1>10, <1>11, <1>12, <1>13,
     <1>14, <1>15, <1>16, <1>17, <1>18, <1>19, <1>20, <1>21, <1>22, <1>23, <1>24, <1>25,
     <1>26, <1>27, <1>28, <1>29, <1>30, <1>31, <1>32, <1>33, <1>34, <1>35, <1>36, <1>37,
     <1>38, <1>39
     DEF Next, Developer, Lookup, Release, FreezeSteps, Setup, Rest

\* What `setup` has done stays done while nobody touches the checkout.
LEMMA SetupStep ==
  ASSUME TypeOK, PlaceInv, SetupInv, [Next]_vars
  PROVE  SetupInv'
<1>1. ASSUME Edit PROVE SetupInv'
  BY <1>1 DEF Edit, Disturb, repo, count, TypeOK, Job, Files, PlaceInv, Placed, SetupInv,
         LookupSteps, GitSteps, ReleaseSteps, NamedSteps, ShortSteps, LongSteps,
         ManifestSteps, AttributeSteps, AddSteps
<1>2. ASSUME Configure PROVE SetupInv'
  BY <1>2 DEF Configure, Disturb, repo, count, TypeOK, Job, Files, PlaceInv, Placed,
         SetupInv, LookupSteps, GitSteps, ReleaseSteps, NamedSteps, ShortSteps,
         LongSteps, ManifestSteps, AttributeSteps, AddSteps
<1>3. ASSUME Commit PROVE SetupInv'
  <2>1. files'.ini = files.ini /\ [Tracked EXCEPT !.src = head + 1].ini = files.ini
    <3>1. Tracked \in Files /\ Tracked.ini = files.ini /\ files \in Files
      BY TrackedType DEF TypeOK
    <3> QED
      BY <1>3, <3>1 DEF Commit, Files
  <2>2. \A c \in DOMAIN commits' : commits'[c].ini \in {0, 1}
    BY <1>3, <2>1 DEF Commit, TypeOK, SetupInv
  <2>3. CASE job.cmd = "none"
    BY <1>3, <2>1, <2>2, <2>3 DEF Commit, Disturb, SetupInv
  <2>4. CASE job.cmd # "none"
    <3>1. ~job'.quiet /\ job'.cmd = job.cmd /\ job'.at = job.at /\ job'.ok = job.ok
      BY <1>3, <2>4 DEF Commit, Disturb, TypeOK, Job
    <3> QED
      BY <2>1, <2>2, <3>1 DEF SetupInv
  <2> QED
    BY <2>3, <2>4
<1>4. ASSUME NEW t \in Tags, Tag(t) PROVE SetupInv'
  BY <1>4 DEF Tag, Disturb, repo, count, TypeOK, Job, Files, PlaceInv, Placed, SetupInv,
         LookupSteps, GitSteps, ReleaseSteps, NamedSteps, ShortSteps, LongSteps,
         ManifestSteps, AttributeSteps, AddSteps
<1>5. ASSUME NEW c \in DOMAIN commits, Checkout(c) PROVE SetupInv'
  <2>1. files \in Files /\ commits[c] \in Files
    BY DEF TypeOK
  <2>m. files' = Merge(Untracked, files, commits[c]) /\ commits' = commits
    BY <1>5 DEF Checkout
  <2>n. Merge(Untracked, files, commits[c]).ini = commits[c].ini
    BY <2>1 DEF Merge, Files
  <2>2. files'.ini = commits[c].ini /\ commits' = commits
    BY <2>m, <2>n
  <2>3. CASE job.cmd = "none"
    BY <1>5, <2>2, <2>3 DEF Checkout, Disturb, SetupInv
  <2>4. CASE job.cmd # "none"
    <3>1. ~job'.quiet /\ job'.cmd = job.cmd /\ job'.at = job.at /\ job'.ok = job.ok
      BY <1>5, <2>4 DEF Checkout, Disturb, TypeOK, Job
    <3> QED
      BY <2>2, <3>1 DEF SetupInv
  <2> QED
    BY <2>3, <2>4
<1>6. ASSUME Start PROVE SetupInv'
  BY <1>6 DEF Start, Idle, repo, count, TypeOK, Job, Files, PlaceInv, Placed, SetupInv,
         LookupSteps, GitSteps, ReleaseSteps, NamedSteps, ShortSteps, LongSteps,
         ManifestSteps, AttributeSteps, AddSteps
<1>7. ASSUME Require PROVE SetupInv'
  <2>1. job'.cmd # "setup" /\ job'.ok = FALSE
    BY <1>7, LookupKeeps DEF SetupInv, Lookers, Idle, TypeOK, Job
  <2> QED
    BY <1>7, <2>1, LookupKeeps DEF SetupInv, repo
<1>8. ASSUME ReadVersionFile PROVE SetupInv'
  <2>1. job'.cmd # "setup" /\ job'.ok = FALSE
    BY <1>8, LookupKeeps DEF SetupInv, Lookers, Idle, TypeOK, Job
  <2> QED
    BY <1>8, <2>1, LookupKeeps DEF SetupInv, repo
<1>9. ASSUME GitFails PROVE SetupInv'
  <2>1. job'.cmd # "setup" /\ job'.ok = FALSE
    BY <1>9, LookupKeeps DEF SetupInv, Lookers, Idle, TypeOK, Job
  <2> QED
    BY <1>9, <2>1, LookupKeeps DEF SetupInv, repo
<1>10. ASSUME GitDescribe PROVE SetupInv'
  BY <1>10 DEF GitDescribe, repo, count, TypeOK, Job, Files, PlaceInv, Placed, SetupInv,
         LookupSteps, GitSteps, ReleaseSteps, NamedSteps, ShortSteps, LongSteps,
         ManifestSteps, AttributeSteps, AddSteps
<1>11. ASSUME GitHead PROVE SetupInv'
  BY <1>11
     DEF GitHead, Revision, repo, count, TypeOK, Job, Files, PlaceInv, Placed, SetupInv,
         LookupSteps, GitSteps, ReleaseSteps, NamedSteps, ShortSteps, LongSteps,
         ManifestSteps, AttributeSteps, AddSteps
<1>12. ASSUME GitCount PROVE SetupInv'
  BY <1>12 DEF GitCount, repo, count, TypeOK, Job, Files, PlaceInv, Placed, SetupInv,
         LookupSteps, GitSteps, ReleaseSteps, NamedSteps, ShortSteps, LongSteps,
         ManifestSteps, AttributeSteps, AddSteps
<1>13. ASSUME GitShow PROVE SetupInv'
  <2>1. job'.cmd # "setup" /\ job'.ok = FALSE
    BY <1>13, LookupKeeps DEF SetupInv, Lookers, Idle, TypeOK, Job
  <2> QED
    BY <1>13, <2>1, LookupKeeps DEF SetupInv, repo
<1>14. ASSUME PrintVersion PROVE SetupInv'
  BY <1>14 DEF PrintVersion, Goto, repo, count, TypeOK, Job, Files, PlaceInv, Placed,
         SetupInv, LookupSteps, GitSteps, ReleaseSteps, NamedSteps, ShortSteps,
         LongSteps, ManifestSteps, AttributeSteps, AddSteps
<1>15. ASSUME WriteEggInfo PROVE SetupInv'
  BY <1>15 DEF WriteEggInfo, repo, count, TypeOK, Job, Files, PlaceInv, Placed, SetupInv,
         LookupSteps, GitSteps, ReleaseSteps, NamedSteps, ShortSteps, LongSteps,
         ManifestSteps, AttributeSteps, AddSteps
<1>16. ASSUME MakeReleaseTree PROVE SetupInv'
  BY <1>16 DEF MakeReleaseTree, Goto, repo, count, TypeOK, Job, Files, PlaceInv, Placed,
         SetupInv, LookupSteps, GitSteps, ReleaseSteps, NamedSteps, ShortSteps,
         LongSteps, ManifestSteps, AttributeSteps, AddSteps
<1>17. ASSUME BuildPy PROVE SetupInv'
  BY <1>17
     DEF BuildPy, Goto, repo, count, TypeOK, Job, Files, PlaceInv, Placed, SetupInv,
         LookupSteps, GitSteps, ReleaseSteps, NamedSteps, ShortSteps, LongSteps,
         ManifestSteps, AttributeSteps, AddSteps
<1>18. ASSUME UnlinkRel PROVE SetupInv'
  <2>1. job.cmd # "setup" /\ ~job.ok
    BY <1>18
       DEF UnlinkRel, PlaceInv, Placed, SetupInv, ReleaseSteps, NamedSteps, ShortSteps,
           TypeOK, Job
  <2>2. job'.cmd # "setup" /\ ~job'.ok
    <3>1. CASE Abort
      BY <3>1 DEF Abort, Idle
    <3>2. CASE Goto("openRel")
      BY <2>1, <3>2 DEF Goto, TypeOK, Job
    <3> QED
      BY <1>18, <3>1, <3>2 DEF UnlinkRel
  <2>3. files'.ini = files.ini /\ commits' = commits
    BY <1>18 DEF UnlinkRel, Abort, WriteVf, repo, TypeOK, Files
  <2> QED
    BY <2>2, <2>3 DEF SetupInv
<1>19. ASSUME OpenRel PROVE SetupInv'
  BY <1>19
     DEF OpenRel, Goto, WriteThrough, repo, count, TypeOK, Job, Files, PlaceInv, Placed,
         SetupInv, LookupSteps, GitSteps, ReleaseSteps, NamedSteps, ShortSteps,
         LongSteps, ManifestSteps, AttributeSteps, AddSteps
<1>20. ASSUME WriteRel PROVE SetupInv'
  BY <1>20 DEF WriteRel, Goto, WriteThrough, repo, count, TypeOK, Job, Files, PlaceInv,
         Placed, SetupInv, LookupSteps, GitSteps, ReleaseSteps, NamedSteps, ShortSteps,
         LongSteps, ManifestSteps, AttributeSteps, AddSteps
<1>21. ASSUME MakeArchive PROVE SetupInv'
  BY <1>21
     DEF MakeArchive, Goto, repo, count, TypeOK, Job, Files, PlaceInv, Placed, SetupInv,
         LookupSteps, GitSteps, ReleaseSteps, NamedSteps, ShortSteps, LongSteps,
         ManifestSteps, AttributeSteps, AddSteps
<1>22. ASSUME CMakeBuild PROVE SetupInv'
  BY <1>22
     DEF CMakeBuild, Goto, repo, count, TypeOK, Job, Files, PlaceInv, Placed, SetupInv,
         LookupSteps, GitSteps, ReleaseSteps, NamedSteps, ShortSteps, LongSteps,
         ManifestSteps, AttributeSteps, AddSteps
<1>23. ASSUME UnlinkVf PROVE SetupInv'
  <2>1. job.cmd # "setup" /\ ~job.ok
    BY <1>23
       DEF UnlinkVf, PlaceInv, Placed, SetupInv, ReleaseSteps, NamedSteps, ShortSteps,
           TypeOK, Job
  <2>2. job'.cmd # "setup" /\ ~job'.ok
    <3>1. Abort => job' = Idle
      BY DEF Abort
    <3>2. Abort \/ (job'.cmd = job.cmd /\ job'.ok = job.ok)
      BY <1>23 DEF UnlinkVf, Goto, TypeOK, Job
    <3> QED
      BY <2>1, <3>1, <3>2 DEF Idle
  <2>3. files'.ini = files.ini /\ commits' = commits
    BY <1>23 DEF UnlinkVf, Abort, WriteVf, repo, TypeOK, Files
  <2> QED
    BY <2>2, <2>3 DEF SetupInv
<1>24. ASSUME OpenVf PROVE SetupInv'
  BY <1>24 DEF OpenVf, Goto, WriteVf, repo, count, TypeOK, Job, Files, PlaceInv, Placed,
         SetupInv, LookupSteps, GitSteps, ReleaseSteps, NamedSteps, ShortSteps,
         LongSteps, ManifestSteps, AttributeSteps, AddSteps
<1>25. ASSUME WriteShort PROVE SetupInv'
  BY <1>25
     DEF WriteShort, Goto, WriteVf, repo, count, TypeOK, Job, Files, PlaceInv, Placed,
         SetupInv, LookupSteps, GitSteps, ReleaseSteps, NamedSteps, ShortSteps,
         LongSteps, ManifestSteps, AttributeSteps, AddSteps
<1>26. ASSUME BuildExe PROVE SetupInv'
  BY <1>26
     DEF BuildExe, Goto, AfterFreeze, repo, count, TypeOK, Job, Files, PlaceInv, Placed,
         SetupInv, LookupSteps, GitSteps, ReleaseSteps, NamedSteps, ShortSteps,
         LongSteps, ManifestSteps, AttributeSteps, AddSteps
<1>27. ASSUME Py2exe PROVE SetupInv'
  BY <1>27
     DEF Py2exe, Goto, AfterFreeze, repo, count, TypeOK, Job, Files, PlaceInv, Placed,
         SetupInv, LookupSteps, GitSteps, ReleaseSteps, NamedSteps, ShortSteps,
         LongSteps, ManifestSteps, AttributeSteps, AddSteps
<1>28. ASSUME OpenLong PROVE SetupInv'
  BY <1>28
     DEF OpenLong, Goto, WriteVf, repo, count, TypeOK, Job, Files, PlaceInv, Placed,
         SetupInv, LookupSteps, GitSteps, ReleaseSteps, NamedSteps, ShortSteps,
         LongSteps, ManifestSteps, AttributeSteps, AddSteps
<1>29. ASSUME WriteLong PROVE SetupInv'
  BY <1>29
     DEF WriteLong, Goto, WriteVf, repo, count, TypeOK, Job, Files, PlaceInv, Placed,
         SetupInv, LookupSteps, GitSteps, ReleaseSteps, NamedSteps, ShortSteps,
         LongSteps, ManifestSteps, AttributeSteps, AddSteps
<1>30. ASSUME ReadConfig PROVE SetupInv'
  BY <1>30
     DEF ReadConfig, Goto, HasConfig, repo, count, TypeOK, Job, Files, PlaceInv, Placed,
         SetupInv, LookupSteps, GitSteps, ReleaseSteps, NamedSteps, ShortSteps,
         LongSteps, ManifestSteps, AttributeSteps, AddSteps
<1>31. ASSUME WriteSnippet PROVE SetupInv'
  BY <1>31
     DEF WriteSnippet, Goto, Snippet, repo, count, TypeOK, Job, Files, PlaceInv, Placed,
         SetupInv, LookupSteps, GitSteps, ReleaseSteps, NamedSteps, ShortSteps,
         LongSteps, ManifestSteps, AttributeSteps, AddSteps
<1>32. ASSUME WriteManifest PROVE SetupInv'
  BY <1>32 DEF WriteManifest, Goto, repo, count, TypeOK, Job, Files, PlaceInv, Placed,
         SetupInv, LookupSteps, GitSteps, ReleaseSteps, NamedSteps, ShortSteps,
         LongSteps, ManifestSteps, AttributeSteps, AddSteps
<1>33. ASSUME OpenAttributes PROVE SetupInv'
  BY <1>33 DEF OpenAttributes, Goto, repo, count, TypeOK, Job, Files, PlaceInv, Placed,
         SetupInv, LookupSteps, GitSteps, ReleaseSteps, NamedSteps, ShortSteps,
         LongSteps, ManifestSteps, AttributeSteps, AddSteps
<1>34. ASSUME WriteAttributes PROVE SetupInv'
  BY <1>34 DEF WriteAttributes, Goto, repo, count, TypeOK, Job, Files, PlaceInv, Placed,
         SetupInv, LookupSteps, GitSteps, ReleaseSteps, NamedSteps, ShortSteps,
         LongSteps, ManifestSteps, AttributeSteps, AddSteps
<1>35. ASSUME GitAdd PROVE SetupInv'
  <2>1. /\ UNCHANGED <<files, commits>> /\ job'.cmd = job.cmd /\ job'.quiet = job.quiet
        /\ job'.at = "scan" /\ job'.ok /\ job.at \in AddSteps
    BY <1>35 DEF GitAdd, TypeOK, Job, AddSteps
  <2>2. job.cmd = "setup"
    BY <2>1 DEF PlaceInv, Placed, ManifestSteps, AttributeSteps
  <2>3. ASSUME job.quiet, breaks' = 0 PROVE {"_version.py", "MANIFEST.in"} \subseteq known'
    <3>1. files.vf = Long /\ files.man # {} /\ files.attr = "marked"
      BY <2>1, <2>2, <2>3 DEF SetupInv, ManifestSteps, AttributeSteps
    <3>2. ToAdd \subseteq Present(files)
      BY <3>1 DEF ToAdd, Present, Names, Long, Absent
    <3>3. known' = known \union ToAdd
      BY <1>35, <2>3, <3>2 DEF GitAdd, TypeOK
    <3> QED
      BY <3>3 DEF ToAdd
  <2> QED
    BY <2>1, <2>2, <2>3 DEF SetupInv, LongSteps, ManifestSteps, AttributeSteps, AddSteps
<1>36. ASSUME Exit PROVE SetupInv'
  BY <1>36
     DEF Exit, ScanSetupPy, repo, count, TypeOK, Job, Files, PlaceInv, Placed, SetupInv,
         LookupSteps, GitSteps, ReleaseSteps, NamedSteps, ShortSteps, LongSteps,
         ManifestSteps, AttributeSteps, AddSteps
<1>37. ASSUME End PROVE SetupInv'
  BY <1>37 DEF End, Idle, repo, count, TypeOK, Job, Files, PlaceInv, Placed, SetupInv,
         LookupSteps, GitSteps, ReleaseSteps, NamedSteps, ShortSteps, LongSteps,
         ManifestSteps, AttributeSteps, AddSteps
<1>38. ASSUME Kill PROVE SetupInv'
  BY <1>38
     DEF Kill, Abort, Idle, repo, count, TypeOK, Job, Files, PlaceInv, Placed, SetupInv,
         LookupSteps, GitSteps, ReleaseSteps, NamedSteps, ShortSteps, LongSteps,
         ManifestSteps, AttributeSteps, AddSteps
<1>39. ASSUME UNCHANGED vars PROVE SetupInv'
  BY <1>39
     DEF vars, repo, count, TypeOK, Job, Files, PlaceInv, Placed, SetupInv, LookupSteps,
         GitSteps, ReleaseSteps, NamedSteps, ShortSteps, LongSteps, ManifestSteps,
         AttributeSteps, AddSteps
<1> QED
  BY <1>1, <1>2, <1>3, <1>4, <1>5, <1>6, <1>7, <1>8, <1>9, <1>10, <1>11, <1>12, <1>13,
     <1>14, <1>15, <1>16, <1>17, <1>18, <1>19, <1>20, <1>21, <1>22, <1>23, <1>24, <1>25,
     <1>26, <1>27, <1>28, <1>29, <1>30, <1>31, <1>32, <1>33, <1>34, <1>35, <1>36, <1>37,
     <1>38, <1>39
     DEF Next, Developer, Lookup, Release, FreezeSteps, Setup, Rest

\* An aborted command leaves a mark that git was not told of in cut.
LEMMA AttrAborted ==
  ASSUME AttrInv, Abort
  PROVE  AttrInv'
  BY DEF Abort, AttrInv, repo

\* git is told of .gitattributes, unless a command is cut or a call fails.
LEMMA AttrStep ==
  ASSUME TypeOK, PlaceInv, AttrInv, [Next]_vars
  PROVE  AttrInv'
<1>1. ASSUME Edit PROVE AttrInv'
  BY <1>1 DEF Edit, Disturb, repo, count, TypeOK, Job, Files, AttrInv
<1>2. ASSUME Configure PROVE AttrInv'
  BY <1>2 DEF Configure, Disturb, repo, count, TypeOK, Job, Files, AttrInv
<1>3. ASSUME Commit PROVE AttrInv'
  <2>1. files'.attr = files.attr /\ job'.at = job.at /\ cut' = cut
    BY <1>3 DEF Commit, Disturb, TypeOK, Job, Files
  <2>2. files.attr = "marked" /\ ".gitattributes" \in known => ".gitattributes" \in known'
    BY <1>3 DEF Commit, Present, Names
  <2> QED
    BY <2>1, <2>2 DEF AttrInv
<1>4. ASSUME NEW t \in Tags, Tag(t) PROVE AttrInv'
  BY <1>4 DEF Tag, Disturb, repo, count, TypeOK, Job, Files, AttrInv
<1>5. ASSUME NEW c \in DOMAIN commits, Checkout(c) PROVE AttrInv'
  <2>1. files \in Files /\ commits[c] \in Files /\ job'.at = job.at
    BY <1>5 DEF Checkout, Disturb, TypeOK, Job
  <2>2. files'.attr = IF ".gitattributes" \in Untracked THEN files.attr ELSE commits[c].attr
    BY <1>5, <2>1, MergeType DEF Checkout
  <2>3. known' = Present(commits[c]) /\ cut' = cut \cap Untracked
    BY <1>5 DEF Checkout
  <2>4. CASE ".gitattributes" \in Untracked
    BY <2>1, <2>2, <2>3, <2>4 DEF AttrInv, Untracked
  <2>5. CASE ".gitattributes" \notin Untracked
    BY <2>2, <2>3, <2>5 DEF AttrInv, Present, Names
  <2> QED
    BY <2>4, <2>5
<1>6. ASSUME Start PROVE AttrInv'
  <2>1. job.at # "addAttributes"
    BY <1>6 DEF Start, PlaceInv, Placed
  <2> QED
    BY <1>6, <2>1 DEF Start, repo, AttrInv
<1>7. ASSUME Require PROVE AttrInv'
  <2>1. UNCHANGED <<files, repo>> /\ job.at # "addAttributes"
    BY <1>7, LookupKeeps DEF LookupSteps, GitSteps
  <2>2. cut \subseteq cut'
    BY <1>7 DEF Require, Abort
  <2> QED
    BY <2>1, <2>2 DEF AttrInv, repo
<1>8. ASSUME ReadVersionFile PROVE AttrInv'
  <2>1. UNCHANGED <<files, repo>> /\ job.at # "addAttributes"
    BY <1>8, LookupKeeps DEF LookupSteps, GitSteps
  <2>2. cut \subseteq cut'
    BY <1>8 DEF ReadVersionFile, Abort
  <2> QED
    BY <2>1, <2>2 DEF AttrInv, repo
<1>9. ASSUME GitFails PROVE AttrInv'
  <2>1. UNCHANGED <<files, repo>> /\ job.at # "addAttributes"
    BY <1>9, LookupKeeps DEF LookupSteps, GitSteps
  <2>2. cut \subseteq cut'
    BY <1>9 DEF GitFails, Abort
  <2> QED
    BY <2>1, <2>2 DEF AttrInv, repo
<1>10. ASSUME GitDescribe PROVE AttrInv'
  BY <1>10 DEF GitDescribe, repo, count, TypeOK, Job, Files, AttrInv
<1>11. ASSUME GitHead PROVE AttrInv'
  BY <1>11 DEF GitHead, Revision, repo, count, TypeOK, Job, Files, AttrInv
<1>12. ASSUME GitCount PROVE AttrInv'
  BY <1>12 DEF GitCount, repo, count, TypeOK, Job, Files, AttrInv
<1>13. ASSUME GitShow PROVE AttrInv'
  <2>1. UNCHANGED <<files, repo>> /\ job.at # "addAttributes"
    BY <1>13, LookupKeeps DEF LookupSteps, GitSteps
  <2>2. cut \subseteq cut'
    BY <1>13 DEF GitShow, Abort
  <2> QED
    BY <2>1, <2>2 DEF AttrInv, repo
<1>14. ASSUME PrintVersion PROVE AttrInv'
  BY <1>14 DEF PrintVersion, Goto, repo, count, TypeOK, Job, Files, AttrInv
<1>15. ASSUME WriteEggInfo PROVE AttrInv'
  BY <1>15 DEF WriteEggInfo, repo, count, TypeOK, Job, Files, AttrInv
<1>16. ASSUME MakeReleaseTree PROVE AttrInv'
  BY <1>16 DEF MakeReleaseTree, Goto, repo, count, TypeOK, Job, Files, AttrInv
<1>17. ASSUME BuildPy PROVE AttrInv'
  BY <1>17 DEF BuildPy, Goto, repo, count, TypeOK, Job, Files, AttrInv
<1>18. ASSUME UnlinkRel PROVE AttrInv'
  BY <1>18, AttrAborted DEF UnlinkRel, Goto, repo, TypeOK, Job, AttrInv
<1>19. ASSUME OpenRel PROVE AttrInv'
  BY <1>19 DEF OpenRel, Goto, WriteThrough, repo, count, TypeOK, Job, Files, AttrInv
<1>20. ASSUME WriteRel PROVE AttrInv'
  BY <1>20 DEF WriteRel, Goto, WriteThrough, repo, count, TypeOK, Job, Files, AttrInv
<1>21. ASSUME MakeArchive PROVE AttrInv'
  BY <1>21 DEF MakeArchive, Goto, repo, count, TypeOK, Job, Files, AttrInv
<1>22. ASSUME CMakeBuild PROVE AttrInv'
  BY <1>22 DEF CMakeBuild, Goto, repo, count, TypeOK, Job, Files, AttrInv
<1>23. ASSUME UnlinkVf PROVE AttrInv'
  BY <1>23, AttrAborted
     DEF UnlinkVf, Goto, WriteVf, repo, TypeOK, Job, Files, AttrInv
<1>24. ASSUME OpenVf PROVE AttrInv'
  BY <1>24 DEF OpenVf, Goto, WriteVf, repo, count, TypeOK, Job, Files, AttrInv
<1>25. ASSUME WriteShort PROVE AttrInv'
  BY <1>25 DEF WriteShort, Goto, WriteVf, repo, count, TypeOK, Job, Files, AttrInv
<1>26. ASSUME BuildExe PROVE AttrInv'
  BY <1>26 DEF BuildExe, Goto, AfterFreeze, repo, count, TypeOK, Job, Files, AttrInv
<1>27. ASSUME Py2exe PROVE AttrInv'
  BY <1>27 DEF Py2exe, Goto, AfterFreeze, repo, count, TypeOK, Job, Files, AttrInv
<1>28. ASSUME OpenLong PROVE AttrInv'
  BY <1>28 DEF OpenLong, Goto, WriteVf, repo, count, TypeOK, Job, Files, AttrInv
<1>29. ASSUME WriteLong PROVE AttrInv'
  BY <1>29 DEF WriteLong, Goto, WriteVf, repo, count, TypeOK, Job, Files, AttrInv
<1>30. ASSUME ReadConfig PROVE AttrInv'
  BY <1>30 DEF ReadConfig, Goto, HasConfig, repo, count, TypeOK, Job, Files, AttrInv
<1>31. ASSUME WriteSnippet PROVE AttrInv'
  BY <1>31 DEF WriteSnippet, Goto, Snippet, repo, count, TypeOK, Job, Files, AttrInv
<1>32. ASSUME WriteManifest PROVE AttrInv'
  BY <1>32 DEF WriteManifest, Goto, repo, count, TypeOK, Job, Files, AttrInv
<1>33. ASSUME OpenAttributes PROVE AttrInv'
  BY <1>33 DEF OpenAttributes, Goto, repo, count, TypeOK, Job, Files, AttrInv
<1>34. ASSUME WriteAttributes PROVE AttrInv'
  BY <1>34 DEF WriteAttributes, Goto, repo, count, TypeOK, Job, Files, AttrInv
<1>35. ASSUME GitAdd PROVE AttrInv'
  <2>1. files' = files /\ job'.at = "scan"
    BY <1>35 DEF GitAdd, TypeOK, Job
  <2>2. job.at = "addAttributes" => ".gitattributes" \in ToAdd
    BY DEF ToAdd
  <2>3. \/ known' = known \union ToAdd /\ cut' = cut \ (ToAdd \ {"_version.py"})
        \/ known' = known /\ cut' = cut \union (ToAdd \cap {".gitattributes"})
    BY <1>35 DEF GitAdd
  <2> QED
    BY <2>1, <2>2, <2>3 DEF AttrInv
<1>36. ASSUME Exit PROVE AttrInv'
  BY <1>36 DEF Exit, ScanSetupPy, repo, count, TypeOK, Job, Files, AttrInv
<1>37. ASSUME End PROVE AttrInv'
  BY <1>37 DEF End, Idle, repo, count, TypeOK, Job, Files, AttrInv
<1>38. ASSUME Kill PROVE AttrInv'
  BY <1>38, AttrAborted DEF Kill
<1>39. ASSUME UNCHANGED vars PROVE AttrInv'
  BY <1>39 DEF vars, repo, count, TypeOK, Job, Files, AttrInv
<1> QED
  BY <1>1, <1>2, <1>3, <1>4, <1>5, <1>6, <1>7, <1>8, <1>9, <1>10, <1>11, <1>12, <1>13,
     <1>14, <1>15, <1>16, <1>17, <1>18, <1>19, <1>20, <1>21, <1>22, <1>23, <1>24, <1>25,
     <1>26, <1>27, <1>28, <1>29, <1>30, <1>31, <1>32, <1>33, <1>34, <1>35, <1>36, <1>37,
     <1>38, <1>39
     DEF Next, Developer, Lookup, Release, FreezeSteps, Setup, Rest

\* An answer that is the current one keeps NameInv.
LEMMA NameAnswered ==
  ASSUME UsesCmdclass, TypeOK, PlaceInv, NameInv, job.at \in LookupSteps, NEW v,
         job' = Answered(v), UNCHANGED <<files, repo>>,
         job.cmd \in {"sdist", "build"} /\ job.quiet => v.version = Current.version
  PROVE  NameInv'
<1>1. job.cmd \in Lookers /\ job \in Job /\ job.round \in {1, 2}
  BY LookerAt DEF Job
<1>2. Current' = Current
  BY DEF Current, IsDirty, Tracked, repo
<1>3. CASE job.round = 1
  <2>1. /\ job'.cmd = job.cmd /\ job'.quiet = job.quiet /\ job'.round = 2 /\ job'.at = "read"
        /\ job'.name = v.version
    BY <1>1, <1>3, AnsweredFields
  <2> QED
    BY <1>2, <2>1 DEF NameInv, LookupSteps, GitSteps, ReleaseSteps, NamedSteps
<1>4. CASE job.round # 1
  <2>1. /\ job'.cmd = job.cmd /\ job'.quiet = job.quiet /\ job'.fresh = job.fresh
        /\ job'.name = job.name /\ job'.ver = v /\ job'.at = AfterLookup(job.cmd)
    BY <1>1, <1>4, AnsweredFields
  <2>2. /\ job'.at \notin LookupSteps
        /\ job.cmd = "sdist" => job'.at = "egg"
    BY <1>1, <2>1, AfterLookupAt DEF LookupSteps, GitSteps
  <2>3. job.cmd \in {"sdist", "build"} /\ job.quiet /\ job.fresh => job'.name = job'.ver.version
    BY <1>1, <1>4, <2>1 DEF NameInv
  <2> QED
    BY <2>1, <2>2, <2>3 DEF NameInv, LookupSteps, GitSteps, ReleaseSteps, NamedSteps
<1> QED
  BY <1>1, <1>3, <1>4

\* Both lookups of a release that nobody disturbs have one answer.
LEMMA NameStep ==
  ASSUME UsesCmdclass, TypeOK, PlaceInv, NameInv, [Next]_vars
  PROVE  NameInv'
<1>1. ASSUME Edit PROVE NameInv'
  BY <1>1 DEF Edit, Disturb, repo, count, TypeOK, Job, PlaceInv, Placed, NameInv,
         LookupSteps, GitSteps, ReleaseSteps, NamedSteps, ShortSteps, LongSteps,
         ManifestSteps, AttributeSteps, AddSteps
<1>2. ASSUME Configure PROVE NameInv'
  BY <1>2 DEF Configure, Disturb, repo, count, TypeOK, Job, PlaceInv, Placed, NameInv,
         LookupSteps, GitSteps, ReleaseSteps, NamedSteps, ShortSteps, LongSteps,
         ManifestSteps, AttributeSteps, AddSteps
<1>3. ASSUME Commit PROVE NameInv'
  BY <1>3 DEF Commit, Disturb, repo, count, TypeOK, Job, PlaceInv, Placed, NameInv,
         LookupSteps, GitSteps, ReleaseSteps, NamedSteps, ShortSteps, LongSteps,
         ManifestSteps, AttributeSteps, AddSteps
<1>4. ASSUME NEW t \in Tags, Tag(t) PROVE NameInv'
  BY <1>4
     DEF Tag, Disturb, repo, count, TypeOK, Job, PlaceInv, Placed, NameInv, LookupSteps,
         GitSteps, ReleaseSteps, NamedSteps, ShortSteps, LongSteps, ManifestSteps,
         AttributeSteps, AddSteps
<1>5. ASSUME NEW c \in DOMAIN commits, Checkout(c) PROVE NameInv'
  BY <1>5 DEF Checkout, Disturb, repo, count, TypeOK, Job, PlaceInv, Placed, NameInv,
         LookupSteps, GitSteps, ReleaseSteps, NamedSteps, ShortSteps, LongSteps,
         ManifestSteps, AttributeSteps, AddSteps
<1>6. ASSUME Start PROVE NameInv'
  <2>1. /\ job'.round = 1 /\ job'.at \in {"config", "require"}
        /\ job'.fresh => egg = {}
    BY <1>6 DEF Start, Idle
  <2>2. egg' = egg
    BY <1>6 DEF Start
  <2> QED
    BY <2>1, <2>2 DEF NameInv, LookupSteps, GitSteps, ReleaseSteps, NamedSteps
<1>7. ASSUME Require PROVE NameInv'
  <2>1. Current' = Current /\ IsDirty' = IsDirty
    BY <1>7 DEF Require, Current, IsDirty, Tracked, repo
  <2>2. CASE \E n \in egg : job' = Named(n)
    <3>0. PICK n \in egg : job' = Named(n)
      BY <2>2
    <3>1. /\ job'.at = "read" /\ job'.cmd = job.cmd /\ job'.fresh = job.fresh
      BY <3>0, NamedFields DEF TypeOK
    <3>2. ~job.fresh
      BY <1>7, <2>2 DEF Require, NameInv
    <3> QED
      BY <3>1, <3>2 DEF NameInv, LookupSteps, GitSteps, ReleaseSteps, NamedSteps
  <2>3. CASE Goto("read")
    <3>1. job'.at = "read" /\ job'.round = job.round
      BY <2>3 DEF Goto, TypeOK, Job
    <3>2. job.round = 1
      BY <1>7 DEF Require, NameInv
    <3> QED
      BY <3>1, <3>2 DEF NameInv, LookupSteps, GitSteps, ReleaseSteps, NamedSteps
  <2> QED
    BY <1>7, <2>2, <2>3 DEF Require
<1>8. ASSUME ReadVersionFile PROVE NameInv'
  <2>1. Current' = Current /\ IsDirty' = IsDirty
    BY <1>8 DEF ReadVersionFile, Abort, Current, IsDirty, Tracked, repo
  <2>0. job.at \in LookupSteps /\ files.vf \in Content
    BY <1>8 DEF ReadVersionFile, LookupSteps, TypeOK, Files
  <2>2. CASE Abort
    BY <2>2 DEF Abort, Idle, NameInv
  <2>3. CASE files.vf.kind = "short" /\ job' = Answered(files.vf.versions) /\ ~Abort
    <3>1. Current.version = files.vf.versions.version
      BY <2>3 DEF Current
    <3>2. UNCHANGED <<files, repo>>
      BY <1>8, <2>3 DEF ReadVersionFile
    <3> QED
      BY <2>0, <2>3, <3>1, <3>2, NameAnswered
  <2>4. CASE files.vf.kind # "short" /\ Goto("describe") /\ ~Abort
    <3>1. /\ job'.cmd = job.cmd /\ job'.quiet = job.quiet /\ job'.fresh = job.fresh
          /\ job'.round = job.round /\ job'.name = job.name /\ job'.ver = job.ver
          /\ job'.at = "describe"
      BY <2>4 DEF Goto, TypeOK, Job
    <3> QED
      BY <1>8, <2>0, <2>1, <2>4, <3>1
         DEF ReadVersionFile, NameInv, LookupSteps, GitSteps, ReleaseSteps, NamedSteps
  <2> QED
    BY <1>8, <2>0, <2>2, <2>3, <2>4, FoundType DEF ReadVersionFile, Answer
<1>9. ASSUME GitFails PROVE NameInv'
  <2>1. CASE Abort
    BY <2>1 DEF Abort, Idle, NameInv
  <2>2. CASE job' = [Answered(Unknown) EXCEPT !.quiet = FALSE]
    <3>1. Answered(Unknown) \in Job
      BY AnsweredType, ConstantTypes DEF TypeOK
    <3>2. /\ ~job'.quiet /\ job'.cmd = Answered(Unknown).cmd /\ job'.at = Answered(Unknown).at
      BY <2>2, <3>1 DEF Job
    <3>3. job.cmd \in Lookers /\ job.at \in LookupSteps
      BY <1>9, LookupKeeps
    <3>4. Answered(Unknown).cmd = job.cmd
      BY AnsweredFields DEF TypeOK
    <3>5. Answered(Unknown).at \in {"read", AfterLookup(job.cmd)}
      BY AnsweredFields DEF TypeOK
    <3>6. job'.at # "require" /\ (job'.cmd = "sdist" => job'.at \in {"read", "egg"})
      BY <3>2, <3>3, <3>4, <3>5, AfterLookupAt
    <3> QED
      BY <3>2, <3>6 DEF NameInv, NamedSteps
  <2> QED
    BY <1>9, <2>1, <2>2 DEF GitFails
<1>10. ASSUME GitDescribe PROVE NameInv'
  <2>1. Current' = Current /\ IsDirty' = IsDirty
    BY <1>10 DEF GitDescribe, Current, IsDirty, Tracked, repo
  <2>2. /\ job'.cmd = job.cmd /\ job'.quiet = job.quiet /\ job'.fresh = job.fresh
        /\ job'.round = job.round /\ job'.name = job.name /\ job'.ver = job.ver
        /\ job'.at = "head" /\ job'.out = Describe(head, tagged, IsDirty)
    BY <1>10 DEF GitDescribe, Revision, TypeOK, Job
  <2> QED
    BY <1>10, <2>1, <2>2
       DEF GitDescribe, repo, NameInv, LookupSteps, GitSteps, ReleaseSteps, NamedSteps
<1>11. ASSUME GitHead PROVE NameInv'
  <2>1. Current' = Current /\ IsDirty' = IsDirty
    BY <1>11 DEF GitHead, Current, IsDirty, Tracked, repo
  <2>2. /\ job'.cmd = job.cmd /\ job'.quiet = job.quiet /\ job'.fresh = job.fresh
        /\ job'.round = job.round /\ job'.name = job.name /\ job'.ver = job.ver
        /\ job'.at \in {"count", "show"} /\ job'.out = job.out /\ job'.full = head
        /\ job'.at = "show" => job.out.tag # NoTag
    BY <1>11 DEF GitHead, Revision, TypeOK, Job
  <2> QED
    BY <1>11, <2>1, <2>2
       DEF GitHead, repo, NameInv, LookupSteps, GitSteps, ReleaseSteps, NamedSteps
<1>12. ASSUME GitCount PROVE NameInv'
  <2>1. Current' = Current /\ IsDirty' = IsDirty
    BY <1>12 DEF GitCount, Current, IsDirty, Tracked, repo
  <2>2. /\ job'.cmd = job.cmd /\ job'.quiet = job.quiet /\ job'.fresh = job.fresh
        /\ job'.round = job.round /\ job'.name = job.name /\ job'.ver = job.ver
        /\ job'.at = "show" /\ job'.out = job.out /\ job'.full = job.full /\ job'.total = head
    BY <1>12 DEF GitCount, Revision, TypeOK, Job
  <2> QED
    BY <1>12, <2>1, <2>2
       DEF GitCount, repo, NameInv, LookupSteps, GitSteps, ReleaseSteps, NamedSteps
<1>13. ASSUME GitShow PROVE NameInv'
  <2>1. job.at \in LookupSteps
    BY <1>13 DEF GitShow, LookupSteps, GitSteps
  <2> DEFINE v == Render(Pieces(job.out, job.full, job.total), Style)
  <2>2. ASSUME job.cmd \in {"sdist", "build"}, job.quiet
        PROVE  v = Current
    <3>1. /\ files.vf.kind # "short" /\ job.out = Describe(head, tagged, IsDirty)
          /\ job.full = head
          /\ job.out.tag = NoTag => job.total = head
      BY <1>13, <2>2 DEF GitShow, NameInv, GitSteps
    <3>2. Pieces(job.out, job.full, job.total) = PiecesAt(head, tagged, IsDirty)
      <4> DEFINE d == Describe(head, tagged, IsDirty)
      <4>1. d.tag = NoTag => job.total = head
        BY <3>1
      <4> HIDE DEF d
      <4>2. Pieces(d, head, job.total) = Pieces(d, head, head)
        BY <4>1 DEF Pieces
      <4> QED
        BY <3>1, <4>2 DEF PiecesAt, d
    <3> QED
      BY <3>1, <3>2 DEF Current
  <2>3. job' = Answered(v) /\ UNCHANGED <<files, repo>>
    BY <1>13 DEF GitShow, Answer
  <2> HIDE DEF v
  <2> QED
    BY <2>1, <2>2, <2>3, NameAnswered
<1>14. ASSUME PrintVersion PROVE NameInv'
  BY <1>14 DEF PrintVersion, Goto, repo, count, TypeOK, Job, PlaceInv, Placed, NameInv,
         LookupSteps, GitSteps, ReleaseSteps, NamedSteps, ShortSteps, LongSteps,
         ManifestSteps, AttributeSteps, AddSteps
<1>15. ASSUME WriteEggInfo PROVE NameInv'
  <2>1. /\ job'.at = "tree" /\ job'.name = job.ver.version /\ job'.ver = job.ver
    BY <1>15 DEF WriteEggInfo, ReleaseName, TypeOK, Job
  <2> QED
    BY <1>15, <2>1 DEF WriteEggInfo, NameInv, LookupSteps, GitSteps
<1>16. ASSUME MakeReleaseTree PROVE NameInv'
  BY <1>16
     DEF MakeReleaseTree, Goto, repo, count, TypeOK, Job, PlaceInv, Placed, NameInv,
         LookupSteps, GitSteps, ReleaseSteps, NamedSteps, ShortSteps, LongSteps,
         ManifestSteps, AttributeSteps, AddSteps
<1>17. ASSUME BuildPy PROVE NameInv'
  BY <1>17 DEF BuildPy, Goto, repo, count, TypeOK, Job, PlaceInv, Placed, NameInv,
         LookupSteps, GitSteps, ReleaseSteps, NamedSteps, ShortSteps, LongSteps,
         ManifestSteps, AttributeSteps, AddSteps
<1>18. ASSUME UnlinkRel PROVE NameInv'
  <2>1. CASE Abort
    BY <2>1 DEF Abort, Idle, NameInv
  <2>2. CASE Goto("openRel")
    <3>1. /\ job'.cmd = job.cmd /\ job'.quiet = job.quiet /\ job'.fresh = job.fresh
          /\ job'.name = job.name /\ job'.ver = job.ver /\ job'.at = "openRel"
      BY <2>2 DEF Goto, TypeOK, Job
    <3> QED
      BY <1>18, <3>1
         DEF UnlinkRel, NameInv, LookupSteps, GitSteps, ReleaseSteps, NamedSteps
  <2> QED
    BY <1>18, <2>1, <2>2 DEF UnlinkRel
<1>19. ASSUME OpenRel PROVE NameInv'
  BY <1>19 DEF OpenRel, Goto, WriteThrough, repo, count, TypeOK, Job, PlaceInv, Placed,
         NameInv, LookupSteps, GitSteps, ReleaseSteps, NamedSteps, ShortSteps,
         LongSteps, ManifestSteps, AttributeSteps, AddSteps
<1>20. ASSUME WriteRel PROVE NameInv'
  BY <1>20 DEF WriteRel, Goto, WriteThrough, repo, count, TypeOK, Job, PlaceInv, Placed,
         NameInv, LookupSteps, GitSteps, ReleaseSteps, NamedSteps, ShortSteps,
         LongSteps, ManifestSteps, AttributeSteps, AddSteps
<1>21. ASSUME MakeArchive PROVE NameInv'
  BY <1>21 DEF MakeArchive, Goto, repo, count, TypeOK, Job, PlaceInv, Placed, NameInv,
         LookupSteps, GitSteps, ReleaseSteps, NamedSteps, ShortSteps, LongSteps,
         ManifestSteps, AttributeSteps, AddSteps
<1>22. ASSUME CMakeBuild PROVE NameInv'
  BY <1>22 DEF CMakeBuild, Goto, repo, count, TypeOK, Job, PlaceInv, Placed, NameInv,
         LookupSteps, GitSteps, ReleaseSteps, NamedSteps, ShortSteps, LongSteps,
         ManifestSteps, AttributeSteps, AddSteps
<1>23. ASSUME UnlinkVf PROVE NameInv'
  BY <1>23 DEF UnlinkVf, Goto, Abort, Idle, WriteVf, repo, count, TypeOK, Job, PlaceInv,
         Placed, NameInv, LookupSteps, GitSteps, ReleaseSteps, NamedSteps, ShortSteps,
         LongSteps, ManifestSteps, AttributeSteps, AddSteps
<1>24. ASSUME OpenVf PROVE NameInv'
  BY <1>24
     DEF OpenVf, Goto, WriteVf, repo, count, TypeOK, Job, PlaceInv, Placed, NameInv,
         LookupSteps, GitSteps, ReleaseSteps, NamedSteps, ShortSteps, LongSteps,
         ManifestSteps, AttributeSteps, AddSteps
<1>25. ASSUME WriteShort PROVE NameInv'
  BY <1>25
     DEF WriteShort, Goto, WriteVf, repo, count, TypeOK, Job, PlaceInv, Placed, NameInv,
         LookupSteps, GitSteps, ReleaseSteps, NamedSteps, ShortSteps, LongSteps,
         ManifestSteps, AttributeSteps, AddSteps
<1>26. ASSUME BuildExe PROVE NameInv'
  BY <1>26 DEF BuildExe, Goto, AfterFreeze, repo, count, TypeOK, Job, PlaceInv, Placed,
         NameInv, LookupSteps, GitSteps, ReleaseSteps, NamedSteps, ShortSteps,
         LongSteps, ManifestSteps, AttributeSteps, AddSteps
<1>27. ASSUME Py2exe PROVE NameInv'
  BY <1>27
     DEF Py2exe, Goto, AfterFreeze, repo, count, TypeOK, Job, PlaceInv, Placed, NameInv,
         LookupSteps, GitSteps, ReleaseSteps, NamedSteps, ShortSteps, LongSteps,
         ManifestSteps, AttributeSteps, AddSteps
<1>28. ASSUME OpenLong PROVE NameInv'
  BY <1>28
     DEF OpenLong, Goto, WriteVf, repo, count, TypeOK, Job, PlaceInv, Placed, NameInv,
         LookupSteps, GitSteps, ReleaseSteps, NamedSteps, ShortSteps, LongSteps,
         ManifestSteps, AttributeSteps, AddSteps
<1>29. ASSUME WriteLong PROVE NameInv'
  BY <1>29
     DEF WriteLong, Goto, WriteVf, repo, count, TypeOK, Job, PlaceInv, Placed, NameInv,
         LookupSteps, GitSteps, ReleaseSteps, NamedSteps, ShortSteps, LongSteps,
         ManifestSteps, AttributeSteps, AddSteps
<1>30. ASSUME ReadConfig PROVE NameInv'
  BY <1>30 DEF ReadConfig, Goto, HasConfig, repo, count, TypeOK, Job, PlaceInv, Placed,
         NameInv, LookupSteps, GitSteps, ReleaseSteps, NamedSteps, ShortSteps,
         LongSteps, ManifestSteps, AttributeSteps, AddSteps
<1>31. ASSUME WriteSnippet PROVE NameInv'
  BY <1>31 DEF WriteSnippet, Goto, Snippet, repo, count, TypeOK, Job, PlaceInv, Placed,
         NameInv, LookupSteps, GitSteps, ReleaseSteps, NamedSteps, ShortSteps,
         LongSteps, ManifestSteps, AttributeSteps, AddSteps
<1>32. ASSUME WriteManifest PROVE NameInv'
  BY <1>32 DEF WriteManifest, Goto, repo, count, TypeOK, Job, PlaceInv, Placed, NameInv,
         LookupSteps, GitSteps, ReleaseSteps, NamedSteps, ShortSteps, LongSteps,
         ManifestSteps, AttributeSteps, AddSteps
<1>33. ASSUME OpenAttributes PROVE NameInv'
  BY <1>33 DEF OpenAttributes, Goto, repo, count, TypeOK, Job, PlaceInv, Placed, NameInv,
         LookupSteps, GitSteps, ReleaseSteps, NamedSteps, ShortSteps, LongSteps,
         ManifestSteps, AttributeSteps, AddSteps
<1>34. ASSUME WriteAttributes PROVE NameInv'
  BY <1>34
     DEF WriteAttributes, Goto, repo, count, TypeOK, Job, PlaceInv, Placed, NameInv,
         LookupSteps, GitSteps, ReleaseSteps, NamedSteps, ShortSteps, LongSteps,
         ManifestSteps, AttributeSteps, AddSteps
<1>35. ASSUME GitAdd PROVE NameInv'
  BY <1>35 DEF GitAdd, repo, count, TypeOK, Job, PlaceInv, Placed, NameInv, LookupSteps,
         GitSteps, ReleaseSteps, NamedSteps, ShortSteps, LongSteps, ManifestSteps,
         AttributeSteps, AddSteps
<1>36. ASSUME Exit PROVE NameInv'
  BY <1>36 DEF Exit, ScanSetupPy, repo, count, TypeOK, Job, PlaceInv, Placed, NameInv,
         LookupSteps, GitSteps, ReleaseSteps, NamedSteps, ShortSteps, LongSteps,
         ManifestSteps, AttributeSteps, AddSteps
<1>37. ASSUME End PROVE NameInv'
  BY <1>37
     DEF End, Idle, repo, count, TypeOK, Job, PlaceInv, Placed, NameInv, LookupSteps,
         GitSteps, ReleaseSteps, NamedSteps, ShortSteps, LongSteps, ManifestSteps,
         AttributeSteps, AddSteps
<1>38. ASSUME Kill PROVE NameInv'
  BY <1>38 DEF Kill, Abort, Idle, repo, count, TypeOK, Job, PlaceInv, Placed, NameInv,
         LookupSteps, GitSteps, ReleaseSteps, NamedSteps, ShortSteps, LongSteps,
         ManifestSteps, AttributeSteps, AddSteps
<1>39. ASSUME UNCHANGED vars PROVE NameInv'
  <2>1. Current' = Current /\ IsDirty' = IsDirty
    BY <1>39 DEF vars, Current, IsDirty, Tracked, repo
  <2> QED
    BY <1>39, <2>1 DEF vars, NameInv
<1> QED
  BY <1>1, <1>2, <1>3, <1>4, <1>5, <1>6, <1>7, <1>8, <1>9, <1>10, <1>11, <1>12, <1>13,
     <1>14, <1>15, <1>16, <1>17, <1>18, <1>19, <1>20, <1>21, <1>22, <1>23, <1>24, <1>25,
     <1>26, <1>27, <1>28, <1>29, <1>30, <1>31, <1>32, <1>33, <1>34, <1>35, <1>36, <1>37,
     <1>38, <1>39
     DEF Next, Developer, Lookup, Release, FreezeSteps, Setup, Rest

\* Only make_archive() and CMakeBuild finish a release.
LEMMA DistChanges ==
  ASSUME [Next]_vars
  PROVE  dist' \subseteq dist \/ MakeArchive \/ CMakeBuild
<1>1. Developer \/ Start \/ Lookup \/ FreezeSteps \/ Setup => dist' = dist
  BY DEF Developer, Edit, Configure, Commit, Tag, Checkout, Start, Lookup, Require,
         ReadVersionFile, GitFails, GitDescribe, GitHead, GitCount, GitShow, Abort,
         FreezeSteps, UnlinkVf, OpenVf, WriteShort, BuildExe, Py2exe, OpenLong, WriteLong,
         Setup, ReadConfig, WriteSnippet, WriteManifest, OpenAttributes, WriteAttributes,
         GitAdd, Exit
<1>2. Release => dist' = dist \/ MakeArchive \/ CMakeBuild
  BY DEF Release, PrintVersion, WriteEggInfo, MakeReleaseTree, BuildPy, UnlinkRel, Abort,
         OpenRel, WriteRel
<1>3. End \/ Kill \/ Rest \/ UNCHANGED vars => dist' \subseteq dist
  BY DEF End, Kill, Abort, Rest, vars
<1> QED
  BY <1>1, <1>2, <1>3 DEF Next

(* The theorems *)

\* It all holds at first: of a checkout and its history, before any command.
LEMMA PartsInit ==
  ASSUME Init
  PROVE  /\ PlaceInv /\ LinkInv /\ LongInv /\ LookupInv
         /\ NameInv /\ ShortInv /\ SetupInv /\ AttrInv
<1>1. PlaceInv
  BY DEF Init, PlaceInv, Placed, Idle, LookupSteps, GitSteps, ReleaseSteps, NamedSteps,
         ShortSteps,
         LongSteps, ManifestSteps, AttributeSteps, AddSteps
<1>2. LinkInv /\ LookupInv
  BY DEF Init, LinkInv, LookupInv, Idle
<1>3. LongInv
  <2>1. commits[head] = files
    BY DEF Init
  <2> QED
    BY <2>1 DEF Init, LongInv, SourceFileIsLong, Idle
<1>4. NameInv /\ ShortInv
  BY DEF Init, NameInv, ShortInv, Idle, NamedSteps
<1>5. SetupInv /\ AttrInv
  BY DEF Init, SetupInv, AttrInv, Idle
<1> QED
  BY <1>1, <1>2, <1>3, <1>4, <1>5

\* sdist and build leave the developer's files alone, for every history and
\* every sequence of commands: what is written is a copy, or was unlinked first.
THEOREM SourcesAreUntouched == Spec => SourceUntouched
<1>1. Init => TypeOK /\ PlaceInv /\ LinkInv
  BY TypeInit, PartsInit
<1>2. TypeOK /\ PlaceInv /\ LinkInv /\ [Next]_vars => (TypeOK /\ PlaceInv /\ LinkInv)'
  BY TypeStep, PlaceStep, LinkStep
<1>3. TypeOK /\ PlaceInv /\ LinkInv /\ [Next]_vars
        => [job.cmd \in {"sdist", "build"} /\ job'.at # job.at => files' = files]_vars
  <2> SUFFICES ASSUME TypeOK, PlaceInv, LinkInv, [Next]_vars,
                      job.cmd \in {"sdist", "build"}, job'.at # job.at
               PROVE  files' = files
    OBVIOUS
  <2>1. ~Developer
    BY DEF Developer, Edit, Configure, Commit, Tag, Checkout, Disturb, TypeOK, Job
  <2>2. ~FreezeSteps \/ files' = files
    BY DEF FreezeSteps, UnlinkVf, OpenVf, WriteShort, BuildExe, Py2exe, OpenLong,
           WriteLong,
           PlaceInv, Placed, ShortSteps, LongSteps
  <2>3. ~Setup \/ files' = files
    BY DEF Setup, ReadConfig, WriteSnippet, WriteManifest, OpenAttributes,
           WriteAttributes,
           GitAdd, Exit, PlaceInv, Placed, ManifestSteps, AttributeSteps, AddSteps
  <2>4. Release => files' = files
    BY DEF Release, PrintVersion, WriteEggInfo, MakeReleaseTree, BuildPy, UnlinkRel,
           Abort,
           OpenRel, WriteRel, WriteThrough, MakeArchive, CMakeBuild, LinkInv
  <2>5. Lookup => files' = files
    BY DEF Lookup, Require, ReadVersionFile, GitFails, GitDescribe, GitHead, GitCount,
           GitShow, Abort
  <2>6. Start \/ End \/ Kill \/ Rest \/ UNCHANGED vars => files' = files
    BY DEF Start, End, Kill, Abort, Rest, vars
  <2> QED
    BY <2>1, <2>2, <2>3, <2>4, <2>5, <2>6 DEF Next
<1> QED
  BY <1>1, <1>2, <1>3, PTL DEF Spec, SourceUntouched

\* A source tree without its long file lost it to a command that was cut, or
\* never had it: HEAD has none either.  A freeze that ends puts it there.
THEOREM LongFileComesBack == Spec => []SourceFileIsLong
<1>1. Init => TypeOK /\ PlaceInv /\ LinkInv /\ LongInv
  BY TypeInit, PartsInit
<1>2. TypeOK /\ PlaceInv /\ LinkInv /\ LongInv /\ [Next]_vars
        => (TypeOK /\ PlaceInv /\ LinkInv /\ LongInv)'
  BY TypeStep, PlaceStep, LinkStep, LongStep
<1>3. LongInv => SourceFileIsLong
  BY DEF LongInv
<1> QED
  BY <1>1, <1>2, <1>3, PTL DEF Spec

\* What each call to git said in a lookup is about a commit that was HEAD in the
\* course of it, also if HEAD moved.
THEOREM LookupIsOfOneCommit == Spec => []LookupSeesOneCommit
<1>1. Init => TypeOK /\ PlaceInv /\ LookupInv
  BY TypeInit, PartsInit
<1>2. TypeOK /\ PlaceInv /\ LookupInv /\ [Next]_vars => (TypeOK /\ PlaceInv /\ LookupInv)'
  BY TypeStep, PlaceStep, LookupStep
<1>3. LookupInv => LookupSeesOneCommit
  BY DEF LookupInv, LookupSeesOneCommit
<1> QED
  BY <1>1, <1>2, <1>3, PTL DEF Spec

\* Every finished release is named by the version in it.
NamesOfReleases == NameInv /\ ReleaseIsNamedByItsVersion

\* With get_cmdclass(), a release has one version: the one in its name.
THEOREM ReleasesAreNamed == ASSUME UsesCmdclass PROVE Spec => []ReleaseIsNamedByItsVersion
<1>1. Init => TypeOK /\ PlaceInv /\ NamesOfReleases
  <2>1. Init => dist = {}
    BY DEF Init
  <2> QED
    BY <2>1, TypeInit, PartsInit DEF NamesOfReleases, ReleaseIsNamedByItsVersion
<1>2. TypeOK /\ PlaceInv /\ NamesOfReleases /\ [Next]_vars
        => (TypeOK /\ PlaceInv /\ NamesOfReleases)'
  <2> SUFFICES ASSUME TypeOK, PlaceInv, NameInv, ReleaseIsNamedByItsVersion, [Next]_vars
               PROVE  ReleaseIsNamedByItsVersion'
    BY TypeStep, PlaceStep, NameStep DEF NamesOfReleases
  <2>1. CASE dist' \subseteq dist
    BY <2>1 DEF ReleaseIsNamedByItsVersion
  <2>2. CASE MakeArchive \/ CMakeBuild
    <3>1. dist' = {Finished} /\ Finished.kind = job.cmd /\ Finished.name = job.name
          /\ Finished.ver = job.ver /\ Finished.quiet = job.quiet /\ Finished.fresh = job.fresh
      BY <2>2 DEF MakeArchive, CMakeBuild, Finished
    <3>2. job.cmd = "sdist" \/ (job.cmd = "build" /\ job.fresh /\ job.quiet)
            => job.name = job.ver.version
      BY <2>2 DEF MakeArchive, CMakeBuild, NameInv, ReleaseSteps, NamedSteps
    <3>3. job.cmd \in {"sdist", "build"}
      BY <2>2 DEF MakeArchive, CMakeBuild
    <3> QED
      BY <3>1, <3>2, <3>3 DEF ReleaseIsNamedByItsVersion
  <2> QED
    BY <2>1, <2>2, DistChanges
<1>3. NamesOfReleases => ReleaseIsNamedByItsVersion
  BY DEF NamesOfReleases
<1> QED
  BY <1>1, <1>2, <1>3, PTL DEF Spec

\* The lookups find a short file before anything else, wherever the file is.
LEMMA ShortAnswers ==
  ASSUME NEW v, NEW place
  PROVE  SetupVersions(Short(v), place) = {v} /\ RuntimeVersions(Short(v), place) = {v}
<1>1. FromKeywords(Short(v)) = {} /\ FromFile(Short(v)) = {v}
  BY DEF FromKeywords, FromFile, HasKeywords, Short
<1>2. SetupVersions(Short(v), place) = {v}
  BY <1>1 DEF SetupVersions, OrElse
<1>3. RuntimeVersions(Short(v), place) = {v}
  BY DEF RuntimeVersions, Short
<1> QED
  BY <1>2, <1>3

\* With get_cmdclass(), a release knows its version in every place there is.
THEOREM ReleasesKeepTheirVersion == ASSUME UsesCmdclass PROVE Spec => []ReleaseKeepsItsVersion
<1>1. Init => TypeOK /\ PlaceInv /\ ShortInv
  BY TypeInit, PartsInit
<1>2. TypeOK /\ PlaceInv /\ ShortInv /\ [Next]_vars => (TypeOK /\ PlaceInv /\ ShortInv)'
  BY TypeStep, PlaceStep, ShortStep
<1>3. ShortInv => ReleaseKeepsItsVersion
  BY ShortAnswers DEF ShortInv, ReleaseKeepsItsVersion
<1> QED
  BY <1>1, <1>2, <1>3, PTL DEF Spec

\* A setup that succeeded undisturbed left nothing out and nothing twice, also if
\* others were cut before; what git does not know it was told in vain, or by none.
THEOREM SetupLeavesAllInPlace == Spec => []SetupIsComplete
<1>1. Init => TypeOK /\ PlaceInv /\ SetupInv /\ AttrInv
  BY TypeInit, PartsInit
<1>2. TypeOK /\ PlaceInv /\ SetupInv /\ AttrInv /\ [Next]_vars
        => (TypeOK /\ PlaceInv /\ SetupInv /\ AttrInv)'
  BY TypeStep, PlaceStep, SetupStep, AttrStep
<1>3. TypeOK /\ SetupInv /\ AttrInv => SetupIsComplete
  BY DEF TypeOK, Files, SetupInv, AttrInv, SetupIsComplete, AddSteps, AttributeSteps,
         ManifestSteps,
         LongSteps
<1> QED
  BY <1>1, <1>2, <1>3, PTL DEF Spec
=============================================================================
