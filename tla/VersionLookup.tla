--------------------------- MODULE VersionLookup ---------------------------
(***************************************************************************)
(* How a version is looked up: the methods versioneer.py and the           *)
(* generated pyqryptonight/_version.py try, and the order they try them    *)
(* in.                                                                     *)
(*                                                                         *)
(* A method is the set of its possible answers; the empty set is the code's*)
(* NotThisMethod.  A version string is read from its end: the suffix a     *)
(* style has written, and the base before it.  The name of a tag is text   *)
(* like any other and may end in such a suffix itself (see Suffixed).      *)
(* Commits are numbered along the history, and a revision id, long or      *)
(* short, is the number of its commit.  Dates are left out.                *)
(***************************************************************************)
EXTENDS Integers, Sequences

CONSTANTS
  Ref,       \* the names of tags and branches
  Prefixed,  \* those that begin with tag_prefix, "v" in setup.cfg ...
  Stripped,  \* ... and what is left of them without it
  Suffixed,  \* of the texts that end in a suffix of a style, how they read
  Digits,    \* the names with a digit in them
  Rank,      \* the place of a name in sorted()
  Preference,  \* of two tags of a commit git describe prints the one with the
               \* greater preference: the annotated one, the newer one
  Style      \* style of setup.cfg and of the generated _version.py

NoTag == "no tag"

Styles == {"pep440", "pep440-pre", "pep440-post", "pep440-old",
           "git-describe", "git-describe-long"}

\* git-describe and git-describe-long write the same suffix.
Form(style) == IF style = "git-describe-long" THEN "git-describe" ELSE style

\* What can be before a suffix.
Bases == {"", "0", "0+untagged", "0+unknown", "unknown"}
           \union {Stripped[t] : t \in Prefixed}
           \union {Suffixed[text].base : text \in DOMAIN Suffixed}

\* A version string: base, the form of its suffix ("plain" without one), and
\* what the suffix says.
VersionString == [base: Bases, form: Styles \union {"plain"}, dist: Int, rev: Int,
                  mark: BOOLEAN]

ASSUME LookupAssumption ==
  /\ Prefixed \subseteq Ref /\ Digits \subseteq Ref
  /\ NoTag \notin Ref
  /\ Stripped \in [Prefixed -> STRING]
  /\ \A t \in Prefixed : Stripped[t] # NoTag
  /\ \A t, u \in Prefixed : Stripped[t] = Stripped[u] => t = u
  /\ Suffixed = [text \in DOMAIN Suffixed |-> Suffixed[text]]
  /\ \A text \in DOMAIN Suffixed :
       Suffixed[text] \in VersionString /\ Suffixed[text].form # "plain"
  /\ \A a, b \in DOMAIN Suffixed : Suffixed[a] = Suffixed[b] => a = b
  /\ Rank \in [Ref -> Nat]
  /\ Preference \in [Ref -> Nat]
  /\ \A r, s \in Ref : Rank[r] = Rank[s] \/ Preference[r] = Preference[s] => r = s
  /\ Style \in Styles

\* A method, and what to do when it is not the one.
OrElse(method, next) == IF method # {} THEN method ELSE next

-----------------------------------------------------------------------------
(* Version strings *)

Hidden == -1

Plain(base) == [base |-> base, form |-> "plain", dist |-> Hidden, rev |-> Hidden,
                mark |-> FALSE]

\* A name on its own, a released tag without the prefix: "1.post1" reads as
\* base "1" with the suffix that pep440-old has for a distance of 1.
Text(name) == IF name \in DOMAIN Suffixed THEN Suffixed[name] ELSE Plain(name)

\* NAME-dirty, which also completes a suffix without the mark: "1-dirty",
\* "1-2-gHEX-dirty".
TextDirty(name) ==
  LET text == Text(name)
  IN IF text.form = "git-describe" /\ ~text.mark THEN [text EXCEPT !.mark = TRUE]
     ELSE [Plain(name) EXCEPT !.form = "git-describe", !.mark = TRUE]

\* pieces["closest-tag"] is tested for truth: a tag that is the bare prefix
\* counts as none.
HasTag(p) == p.tag \notin {NoTag, ""}

Base(p, default) == IF HasTag(p) THEN p.tag ELSE default

\* Mutant of IsTagged: local changes do not count.
IsTaggedCommit(p) == HasTag(p) /\ p.dist = 0

\* A release: neither commits nor changes since the tag.
IsTagged(p) == HasTag(p) /\ p.dist = 0 /\ ~p.dirty

\* TAG[+DISTANCE.gHEX[.dirty]]
RenderPep440(p) ==
  IF IsTagged(p) THEN Text(p.tag)
  ELSE [base |-> Base(p, "0+untagged"), form |-> "pep440", dist |-> p.dist,
        rev |-> p.short, mark |-> p.dirty]

\* TAG[.post.devDISTANCE]
RenderPep440Pre(p) ==
  IF HasTag(p) /\ p.dist = 0 THEN Text(p.tag)
  ELSE [base |-> Base(p, "0"), form |-> "pep440-pre", dist |-> p.dist, rev |-> Hidden,
        mark |-> FALSE]

\* TAG[.postDISTANCE[.dev0]+gHEX]
RenderPep440Post(p) ==
  IF IsTagged(p) THEN Text(p.tag)
  ELSE [base |-> Base(p, "0"), form |-> "pep440-post", dist |-> p.dist, rev |-> p.short,
        mark |-> p.dirty]

\* TAG[.postDISTANCE[.dev0]]
RenderPep440Old(p) ==
  IF IsTagged(p) THEN Text(p.tag)
  ELSE [base |-> Base(p, "0"), form |-> "pep440-old", dist |-> p.dist, rev |-> Hidden,
        mark |-> p.dirty]

\* Mutant of RenderGitDescribe: the tag alone.
RenderTag(p) == Text(Base(p, ""))

\* TAG[-DISTANCE-gHEX][-dirty], or HEX[-dirty]
RenderGitDescribe(p) ==
  IF HasTag(p) /\ p.dist = 0
  THEN IF p.dirty THEN TextDirty(p.tag) ELSE Text(p.tag)
  ELSE [base |-> Base(p, ""), form |-> "git-describe",
        dist |-> IF HasTag(p) THEN p.dist ELSE Hidden, rev |-> p.short, mark |-> p.dirty]

\* TAG-DISTANCE-gHEX[-dirty], or HEX[-dirty]
RenderGitDescribeLong(p) ==
  [base |-> Base(p, ""), form |-> "git-describe",
   dist |-> IF HasTag(p) THEN p.dist ELSE Hidden, rev |-> p.short, mark |-> p.dirty]

Render(p, style) ==
  IF p.error # "none"
  THEN [version |-> Plain("unknown"), full |-> p.long, dirty |-> "None", error |-> p.error]
  ELSE [version |-> CASE style = "pep440"       -> RenderPep440(p)
                      [] style = "pep440-pre"   -> RenderPep440Pre(p)
                      [] style = "pep440-post"  -> RenderPep440Post(p)
                      [] style = "pep440-old"   -> RenderPep440Old(p)
                      [] style = "git-describe" -> RenderGitDescribe(p)
                      [] style = "git-describe-long" -> RenderGitDescribeLong(p),
        full |-> p.long, dirty |-> IF p.dirty THEN "True" ELSE "False", error |-> "none"]

-----------------------------------------------------------------------------
(* git *)

\* The matching tags nearest to a commit, and of those the preferred one.
Nearest(commit, tagged) ==
  LET matching == {t \in Prefixed \cap DOMAIN tagged : tagged[t] \in 1..commit}
  IN {t \in matching : \A u \in matching :
        \/ tagged[u] < tagged[t]
        \/ tagged[u] = tagged[t] /\ Preference[u] <= Preference[t]}

\* What `git describe --tags --dirty --always --long --match v*` prints at a
\* commit: TAG-DISTANCE-gHEX, or HEX if no tag matches.
Describe(commit, tagged, isDirty) ==
  LET nearest == Nearest(commit, tagged)
      tag == IF nearest = {} THEN NoTag ELSE CHOOSE t \in nearest : TRUE
  IN [tag |-> tag, dist |-> IF tag = NoTag THEN 0 ELSE commit - tagged[tag],
      short |-> commit, dirty |-> isDirty]

\* Mutant of Pieces: the full revision id is forgotten.
PiecesWithoutLong(d, full, count) ==
  [tag |-> IF d.tag \in Prefixed THEN Stripped[d.tag] ELSE NoTag,
   dist |-> IF d.tag = NoTag THEN count ELSE d.dist,
   short |-> d.short, long |-> Hidden, dirty |-> d.dirty, error |-> "none"]

\* The pieces: what describe printed, what rev-parse HEAD did, and for an
\* untagged history what rev-list HEAD --count did.
Pieces(d, full, count) ==
  [tag   |-> IF d.tag \in Prefixed THEN Stripped[d.tag] ELSE NoTag,
   dist  |-> IF d.tag = NoTag THEN count ELSE d.dist,
   short |-> d.short, long |-> full, dirty |-> d.dirty,
   error |-> IF d.tag \in Prefixed \union {NoTag} THEN "none"
             ELSE "tag doesn't start with prefix"]

\* All of it at once, in a repository that stands still.
PiecesAt(commit, tagged, isDirty) ==
  Pieces(Describe(commit, tagged, isDirty), commit, commit)

-----------------------------------------------------------------------------
(* The contents of _version.py *)

Absent   == [kind |-> "absent"]
Torn     == [kind |-> "torn"]    \* opened for writing, not written yet
Long     == [kind |-> "long"]    \* the generated program, keywords not expanded
Short(v) == [kind |-> "short", versions |-> v]    \* a fixed answer

\* What git-archive makes of the long one: refs are the names at the commit,
\* with or without the mark "tag: " (git before 1.8.3 has none).
Expanded(refs, full) == [kind |-> "expanded", refs |-> refs, full |-> full]

\* Mutant of LikelyTags: branches compete with the tags.
AnyRef(refs) == {r.name : r \in refs}

LikelyTags(refs) ==
  IF \E r \in refs : r.tag THEN {r.name : r \in {s \in refs : s.tag}}
  ELSE {r.name : r \in refs} \cap Digits

HasKeywords(f) == f.kind \in {"long", "expanded"}

FromKeywords(f) ==
  IF ~HasKeywords(f) \/ f.kind = "long" THEN {}
  ELSE LET good == LikelyTags(f.refs) \cap Prefixed
       IN OrElse({[version |-> Text(Stripped[r]), full |-> f.full,
                   dirty |-> "False", error |-> "none"]
                    : r \in {s \in good : \A o \in good : Rank[s] <= Rank[o]}},
                 {[version |-> Plain("0+unknown"), full |-> f.full,
                   dirty |-> "False", error |-> "no suitable tags"]})

FromFile(f) == IF f.kind = "short" THEN {f.versions} ELSE {}

-----------------------------------------------------------------------------
(* The place of the file: what git answers there, the names of the root     *)
(* directory and its parents, innermost first, each split where a prefix    *)
(* may end, and whether __file__ is known                                    *)

NoPrefix == ""   \* setup.cfg has no parentdir_prefix ...
RuntimePrefix == "None"   \* ... which the generated file holds as a string

FromParentdir(prefix, dirs) ==
  LET fits == {i \in DOMAIN dirs : dirs[i].prefix = prefix}
  IN {[version |-> Text(dirs[i].rest), full |-> 0, dirty |-> "False", error |-> "none"]
        : i \in {j \in fits : \A k \in fits : j <= k}}

Unknown == [version |-> Plain("0+unknown"), full |-> 0, dirty |-> "None",
            error |-> "unable to compute version"]

NoRoot == [Unknown EXCEPT !.error = "unable to find root of source tree"]

\* Mutant of SetupVersions: the repository around the tree is asked first.
GitFirst(f, place) ==
  OrElse(FromKeywords(f), OrElse(place.git, OrElse(FromFile(f), {Unknown})))

\* get_versions() of versioneer.py, which setup.py uses ...
SetupVersions(f, place) ==
  OrElse(FromKeywords(f),
  OrElse(FromFile(f),
  OrElse(place.git,
  OrElse(IF NoPrefix # "" THEN FromParentdir(NoPrefix, place.dirs) ELSE {},
         {Unknown}))))

\* ... and of _version.py, which the package uses: the long file looks the
\* version up, a short one has it, what is neither cannot be imported.
RuntimeVersions(f, place) ==
  IF f.kind \in {"absent", "torn"} THEN {}
  ELSE IF f.kind = "short" THEN {f.versions}
  ELSE OrElse(FromKeywords(f),
       IF ~place.file THEN {NoRoot}
       ELSE OrElse(place.git,
            OrElse(FromParentdir(RuntimePrefix, place.dirs), {Unknown})))
=============================================================================
