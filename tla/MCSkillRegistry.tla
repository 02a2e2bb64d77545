-------------------------- MODULE MCSkillRegistry --------------------------
(* Instances of SkillRegistry for TLC. *)
EXTENDS SkillRegistry

CONSTANTS l1, l2, g, h, tool, native, c1, x1

\* l1 and l2 are two versions of a linked skill, g a repository without a
\* manifest, h a repository whose directory and manifest differ in name.
FourPackages == {l1, l2, g, h}
FourDirs == (l1 :> 2) @@ (l2 :> 2) @@ (g :> 1) @@ (h :> 1)
FourNames == (l1 :> 2) @@ (l2 :> 2) @@ (g :> 1) @@ (h :> 3)
FourTools ==
  (l1 :> {tool}) @@ (l2 :> {tool, native}) @@ (g :> AnyTool) @@ (h :> {tool})
FourManifests ==
  (l1 :> "good") @@ (l2 :> "good") @@ (g :> "missing") @@ (h :> "good")
TwoLinked == {l1, l2}
TwoTools == {tool, native}
OneNative == {native}
Fits == << {native}, {}, {} >>
OneCall == {c1}
OneToolOf == (c1 :> native)
OneTerminal == {x1}
=============================================================================
