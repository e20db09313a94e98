---------------------------- MODULE MCThirdParty ----------------------------
(* Two repositories that clash in a bundle name and in an exported binary; one *)
(* moves a binary in its second version.                                       *)
EXTENDS ThirdParty, TLC

MCFileOrder == <<"/bin/x", "/bin/y", "/usr/bin/x">>
MCBase == ("/bin/x" :> "x") @@ ("/bin/y" :> "y") @@ ("/usr/bin/x" :> "x")

Nothing == <<>>
X(content, since) == [content |-> content, exported |-> TRUE, since |-> since]
P(content, since) == [content |-> content, exported |-> FALSE, since |-> since]
Gone(since) == [content |-> None, exported |-> TRUE, since |-> since]
MCRank == [core |-> 1, app |-> 2, tool |-> 3]
MCCatalog ==
  [u1 |-> <<[core |-> Nothing, app |-> ("/usr/bin/x" :> X("x1", 10)),
             tool |-> ("/usr/bin/x" :> P("x1", 20)) @@ ("/bin/y" :> X("y1", 10))],
            [core |-> Nothing, app |-> ("/bin/x" :> X("x1", 30)) @@ ("/usr/bin/x" :> Gone(30)),
             tool |-> ("/bin/x" :> P("x1", 30))]>>,
   u2 |-> <<[core |-> Nothing, app |-> ("/bin/y" :> P("y1", 10))],
            [core |-> Nothing, app |-> ("/bin/y" :> X("y2", 20))]>>]

MCLower == [one |-> "one", two |-> "two"]

Repo(op, n, u, force) == [op |-> op, repo |-> n, url |-> u, force |-> force]
Bundle(op, bs, n) == [op |-> op, bundles |-> bs, repo |-> n]
Over(op, n) == [op |-> op, repo |-> n]

MCCommands ==
  {Repo("add", "one", "u1", FALSE), Repo("add", "two", "u2", TRUE),
   Repo("add", "two", "u1", FALSE),
   Repo("remove", "one", None, FALSE), Repo("remove", "two", None, TRUE),
   Bundle("bundle-add", <<"tool", "app">>, AllRepos), Bundle("bundle-add", <<"app">>, "two"),
   Bundle("bundle-remove", <<"app">>, "one"), Bundle("bundle-remove", <<"tool", "core">>, AllRepos),
   Bundle("bundle-info", <<"tool">>, "two"),
   Over("update", AllRepos), Over("repair", AllRepos), Over("clean", "two"),
   Over("diagnose", AllRepos), Over("check-update", "one"), Over("info", "two"),
   [op |-> "bundle-list", repo |-> AllRepos, bundle |-> "tool"]}
=============================================================================
