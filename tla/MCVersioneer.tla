---------------------------- MODULE MCVersioneer ----------------------------
(***************************************************************************)
(* Versioneer on small histories.                                          *)
(***************************************************************************)
EXTENDS Versioneer

\* Two releases, the second called like a distance from the first, a tag that
\* is none, and a branch that is called like a release.
MCRef == {"v1", "v1.post1", "nightly", "v0-next"}
MCPrefixed == {"v1", "v1.post1", "v0-next"}
MCStripped == [t \in MCPrefixed |-> CASE t = "v1" -> "1" [] t = "v1.post1" -> "1.post1"
                                      [] t = "v0-next" -> "0-next"]
MCSuffixed == [text \in {"1.post1"} |->
                 [base |-> "1", form |-> "pep440-old", dist |-> 1, rev |-> Hidden,
                  mark |-> FALSE]]
MCDigits == {"v1", "v1.post1", "v0-next"}
MCRank == [r \in MCRef |-> CASE r = "nightly" -> 0 [] r = "v0-next" -> 1
                              [] r = "v1" -> 2 [] r = "v1.post1" -> 3]

\* No repository; that of another project, tagged; a directory "Nonesuch".
MCPlaces ==
  {[git |-> {}, dirs |-> <<>>, file |-> TRUE],
   [git |-> {Render([tag |-> "2", dist |-> 1, short |-> 9, long |-> 9, dirty |-> FALSE,
                     error |-> "none"], Style)}, dirs |-> <<>>, file |-> TRUE],
   [git |-> {}, dirs |-> <<[prefix |-> "None", rest |-> "such"]>>, file |-> FALSE]}

MCScripts == {<<"sdist", "build">>, <<"build_exe", "sdist">>, <<"setup", "setup">>,
              <<"py2exe">>, <<"version">>}
MCPlainScripts == {<<"sdist">>, <<"build">>}

=============================================================================
