---------------------------- MODULE MCRootInstall ----------------------------
(* Two directories with one entry each and the os-release file, which sorts *)
(* between them as /usr/lib/os-release sorts between other files.           *)
EXTENDS RootInstall

CONSTANTS A, Ax, B, Bx, V

MCOrder == <<A, Ax, V, B, Bx>>
MCParent == [p \in {A, Ax, V, B, Bx} |-> CASE p = Ax -> A [] p = Bx -> B [] OTHER -> Root]
MCThrough == [p \in {A, Ax, V, B, Bx} |-> IF p = Ax THEN Bx ELSE p]

Tree(a, ax, v, bx) ==
  [p \in {A, Ax, V, B, Bx} |->
     CASE p = A -> a [] p = Ax -> ax [] p = V -> v [] p = B -> "dir" [] p = Bx -> bx]

\* Well-formed trees with version v: A is anything, B a directory.
Trees5(v, files) ==
  {Tree(a, "absent", v, bx) : a \in files \union {"absent", "link", "dir"},
                              bx \in files \union {"absent"}}
    \union {Tree("dir", ax, v, bx) : ax \in files \union {"link"},
                                     bx \in files \union {"absent"}}

MCManifests ==
  {m \in [old : Trees5("old", {"old"}), new : Trees5("new", {"old", "new"}), bumped : {{}, {Bx}}] :
     m.old[Bx] # m.new[Bx] => m.bumped = {}}
=============================================================================
