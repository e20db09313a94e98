----------------------------- MODULE MCSession -----------------------------
(* Two commands over six of the ten state directories, in eleven environments. *)
EXTENDS Session, TLC

CONSTANTS a, b, core, x

MCCacheDirs == <<"cache", "url", "staged", "manifest">>
MCDataDirs == <<"bundles", "3rd-party">>
MCInside == [cache |-> "root", url |-> "cache", staged |-> "url", manifest |-> "url",
             bundles |-> "root"] @@ ("3rd-party" :> "root")

\* Every pair of works once: the two processes are alike.
Pairs(kinds) ==
  LET rank == [install |-> 1, uninstall |-> 2, clean |-> 3, clean_all |-> 4, clean_dry |-> 5]
  IN {w \in [Procs -> kinds] : rank[w[a]] <= rank[w[b]]}

Usual == [dir |-> [d \in Dirs |-> "right"], umask |-> [p \in Procs |-> "022"],
          cached |-> Items, tracked |-> {core}, removed |-> {x}, timecheck |-> TRUE, stamp |-> "prefix",
          clock |-> "good", cert_valid |-> TRUE, globals_valid |-> TRUE,
          version_known |-> TRUE]
Fresh == [Usual EXCEPT !.dir = [d \in Dirs |-> "absent"]]

With(environments, kinds) ==
  {("work" :> w) @@ e : e \in environments, w \in Pairs(kinds)}

MCEnvironments ==
  With({Usual}, WorkKinds)
  \union With({Fresh, [Usual EXCEPT !.dir["staged"] = "wrong"]}, {"install", "clean"})
  \union With({[Usual EXCEPT !.tracked = {x}]}, {"install", "uninstall"})
  \union With({[Usual EXCEPT !.version_known = FALSE]}, {"uninstall", "clean"})
  \union With({[Usual EXCEPT !.cached = @ \ {"current_mom"}]}, {"clean", "clean_dry"})
  \union With({[Usual EXCEPT !.dir["cache"] = "wrong", !.clock = "late"],
               [Usual EXCEPT !.cert_valid = FALSE, !.clock = "late", !.timecheck = FALSE],
               [Usual EXCEPT !.stamp = "none"], [Usual EXCEPT !.globals_valid = FALSE],
               [Fresh EXCEPT !.umask = [p \in Procs |-> "077"]]}, {"install"})
=============================================================================
