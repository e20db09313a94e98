--------------------------- MODULE MCBundleManager ---------------------------
(* os-core and three bundles; x and z share a file. The files of z sort on  *)
(* both sides of its marker.                                                *)
EXTENDS BundleManager, Sequences, SequencesExt

CONSTANTS core, x, y, z, binS, shareZ, mCore, mX, mY, mZ

MCOrder == <<binS, mCore, mX, mY, mZ, shareZ>>
MCPaths == ToSet(MCOrder)
MCRank == [p \in MCPaths |-> CHOOSE i \in 1 .. Len(MCOrder) : MCOrder[i] = p]
MCMarker == [b \in Bundles |-> CASE b = core -> mCore [] b = x -> mX [] b = y -> mY [] b = z -> mZ]
MCContent ==
  [b \in Bundles |-> CASE b = core -> {mCore}
                       [] b = x -> {mX, binS}
                       [] b = y -> {mY}
                       [] b = z -> {mZ, binS, shareZ}]

\* Every acyclic choice of dependencies: y may need x, z may need x and y, and
\* each need is an include or an optional one.
Edges == {<<y, x>>, <<z, x>>, <<z, y>>}
GraphOf(E) == [b \in Bundles |-> {d \in Bundles : <<b, d>> \in E}]
AllNeedCore == {<<x, core>>, <<y, core>>, <<z, core>>}

MCManifests ==
  {[includes |-> GraphOf(AllNeedCore \union I), optional |-> GraphOf(O \ I)] :
     I \in SUBSET Edges, O \in SUBSET Edges}

\* os-core includes a bundle itself.
MCManifestsOfCore ==
  {[includes |-> GraphOf({<<core, x>>, <<z, core>>}), optional |-> GraphOf({})]}

MCRequests == {{x}, {y}, {z}, {x, y}, {x, z}, {core, z}}
=============================================================================
