------------------------- MODULE MCImportResolution -------------------------
(* One file imported by name and, after or before that, as a whole.        *)
EXTENDS ImportResolution, CirqSyntax

NoPaths == <<>>

MixedProjects ==
    {[root  |-> <<i, j, Circuit("top", <<>>)>>,
      files |-> [f \in {<<"lib">>} |->
          File("clean", <<Card("d"), Export("tt", <<Card("d_tt")>>)>>)]] :
        i, j \in {Import(<<"lib">>), ImportNames({"tt"}, <<"lib">>)}}
=============================================================================
