------------------------------- MODULE MCRepair -------------------------------
(* Two versions of os-core, and a bundle only the first version has, where os-core has it *)
(* as an optional one; the third version is of another format.  No version has a          *)
(* directory where the other one has a file.                                              *)
EXTENDS Repair, TLC

MCOrder == <<"app", "dir", "dir/lib", "else", "else/lib", "keep", "mark", "old", "old/mine",
             "release", "shared", "state">>
MCParent == [p \in {MCOrder[i] : i \in DOMAIN MCOrder} |->
               CASE p = "dir/lib" -> "dir" [] p = "else/lib" -> "else"
                 [] p = "old/mine" -> "old" [] OTHER -> "/usr"]
MCThrough == [p \in {MCOrder[i] : i \in DOMAIN MCOrder} |->
                IF p = "dir/lib" THEN "else/lib" ELSE p]
MCMarker == [b \in {"core", "app"} |-> IF b = "core" THEN "release" ELSE "mark"]
MCVersionIn == [r1 |-> 1, r2 |-> 2]

CoreFiles(lib, release) ==
  "dir" :> "dir" @@ "dir/lib" :> lib @@ "old" :> "gone" @@ "release" :> release
    @@ "shared" :> "gone" @@ "state" :> "s"
AppFiles == "app" :> "a" @@ "mark" :> "m" @@ "shared" :> "x"
Bundle(listed, optional, files) ==
  [listed |-> listed, includes |-> {}, optional |-> optional, files |-> files]
First == [core |-> Bundle(TRUE, {"app"}, CoreFiles("lib1", "r1")),
          app |-> Bundle(TRUE, {}, AppFiles)]
Second == [core |-> Bundle(TRUE, {}, "old/mine" :> "gone" @@ CoreFiles("lib2", "r2")),
           app |-> Bundle(FALSE, {}, AppFiles)]
MCCatalog == <<First, Second, Second>>

Sound ==
  [p \in {MCOrder[i] : i \in DOMAIN MCOrder} |->
     CASE p = "app" -> "a" [] p \in {"dir", "else"} -> "dir"
       [] p \in {"dir/lib", "else/lib"} -> "lib1" [] p = "keep" -> "k" [] p = "mark" -> "m"
       [] p = "release" -> "r1" [] p = "shared" -> "x" [] p = "state" -> "s" [] OTHER -> "absent"]
Damaged(changes) == changes @@ Sound
Nothing == [p \in {MCOrder[i] : i \in DOMAIN MCOrder} |-> "absent"]
MCWorlds == {
  Damaged("dir" :> "link" @@ "dir/lib" :> "absent" @@ "app" :> "absent" @@ "old" :> "f"
            @@ "state" :> "junk"),
  Damaged("dir" :> "link" @@ "dir/lib" :> "absent" @@ "else/lib" :> "junk" @@ "old" :> "f"),
  Damaged("dir" :> "junk" @@ "dir/lib" :> "absent" @@ "shared" :> "link"),
  Damaged("old" :> "dir" @@ "old/mine" :> "u" @@ "dir/lib" :> "junk" @@ "state" :> "absent"),
  Damaged("mark" :> "absent" @@ "old" :> "dir" @@ "app" :> "junk"),
  Damaged("release" :> "absent" @@ "keep" :> "junk" @@ "else" :> "absent" @@ "else/lib" :> "absent"),
  Nothing, Sound}

MCRequests == {
  [NoRequest EXCEPT !.command = "diagnose"],
  [NoRequest EXCEPT !.command = "diagnose", !.picky = TRUE],
  [NoRequest EXCEPT !.command = "diagnose", !.bundles = {"app"}],
  [NoRequest EXCEPT !.command = "repair"],
  [NoRequest EXCEPT !.command = "repair", !.picky = TRUE],
  [NoRequest EXCEPT !.command = "repair", !.version = 2, !.force = TRUE],
  [NoRequest EXCEPT !.command = "repair", !.version = 3, !.picky = TRUE],
  [NoRequest EXCEPT !.command = "repair", !.bundles = {"core"}],
  [NoRequest EXCEPT !.command = "repair", !.bundles = {"app", "none"}, !.force = TRUE,
                    !.legacy = TRUE],
  [NoRequest EXCEPT !.command = "repair", !.bundles = {"core"}, !.picky = TRUE,
                    !.legacy = TRUE],
  [NoRequest EXCEPT !.command = "repair", !.quick = TRUE],
  [NoRequest EXCEPT !.command = "repair", !.extra = TRUE, !.force = TRUE],
  [NoRequest EXCEPT !.command = "repair", !.quick = TRUE, !.picky = TRUE],
  [NoRequest EXCEPT !.command = "repair", !.file = "dir"],
  [NoRequest EXCEPT !.command = "repair", !.file = "keep", !.picky = TRUE],
  [NoRequest EXCEPT !.command = "install", !.version = 1, !.bundles = {"app"}, !.skip = TRUE],
  [NoRequest EXCEPT !.command = "install", !.version = 1, !.bundles = {"core"}],
  [NoRequest EXCEPT !.command = "install", !.version = Latest, !.bundles = {"none"}],
  [NoRequest EXCEPT !.command = "install", !.version = 1, !.download = TRUE]}
=============================================================================
