------------------------------ MODULE MCCommit ------------------------------
(***************************************************************************)
(* The repository's pre-commit directory with its two scripts and a second *)
(* one with three.  The hooks found are missing, someone's own, written by *)
(* Autogen for one to three scripts with and without lines around the      *)
(* section, cut short, or damaged in every way that the markers allow.     *)
(***************************************************************************)
EXTENDS Commit

MCHooks == <<"pre-commit", "pre-push">>
MCScriptsOf == [h \in {"pre-commit", "pre-push"} |->
  IF h = "pre-commit" THEN <<"01-style.sh", "02-lint.sh">> ELSE <<"a.sh", "b.sh", "c.sh">>]

Managed(scripts, after) == <<Shebang>> \o ScriptPackage(scripts) \o after
Sections == {MCScriptsOf["pre-commit"], <<"x.sh">>}
Afters == {<<>>, <<Blank>>, <<"mine", "yours", Blank>>}

Own == {<<Shebang, "mine", Blank>>, <<"#!/bin/sh", "mine">>, <<Blank>>}
Damaged ==
  {<<Shebang, SectionHead, "mine">>, <<Shebang, SectionFoot, "mine", "yours", "mine", "yours", "mine">>,
   <<Shebang, SectionFoot, "mine", SectionHead>>, <<Shebang, SectionHead, SectionFoot, "mine", Blank>>,
   <<Shebang, SectionHead, SectionHead, SectionFoot>>, <<Shebang, SectionHead, SectionFoot, SectionFoot>>,
   <<Shebang, "mine">> \o ScriptPackage(<<"x.sh">>) \o <<"yours">>}

Contents ==
  {NoFile} \cup Own \cup Damaged \cup {Managed(s, after) : s \in Sections, after \in Afters}
Pushed == {Managed(<<"a.sh">>, <<"mine">>), Managed(MCScriptsOf["pre-push"], <<>>)}

Hooked(c, p) == [h \in {"pre-commit", "pre-push"} |-> IF h = "pre-commit" THEN c ELSE p]
MCOriginals == {Hooked(c, NoFile) : c \in Contents} \cup {Hooked(NoFile, p) : p \in Pushed}
=============================================================================
