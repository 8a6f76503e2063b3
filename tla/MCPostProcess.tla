---------------------------- MODULE MCPostProcess ----------------------------
\* Model-checking instance of PostProcess: a directory with one video, a release in
\* it with two videos that are packed, a subfolder of the release with one more, and
\* another download, of which only the name matters.
EXTENDS PostProcess

CONSTANTS root, rel, sub, other, v1, v2, v3, v4

MCTree ==
  [f \in Folder |-> IF f = root THEN Folder ELSE IF f = rel THEN {rel, sub} ELSE {f}]

MCFolderOf == [v \in Video |-> IF v = v1 THEN root ELSE IF v = v4 THEN sub ELSE rel]

Job0 ==
  [single |-> TRUE, runner |-> FALSE, kind |-> "folder", method |-> "link", has |-> {v4},
   mayMark |-> {sub, other}, maySync |-> {rel, sub}, protected |-> FALSE, unpack |-> TRUE,
   postponeIfNoSubs |-> TRUE, useFailedDownloads |-> TRUE, deleteFailed |-> TRUE,
   delRarContents |-> TRUE]

\* Jobs of the download handler for a folder, for the directory and for a file, that
\* link, copy or move; a manual run over the directory, and a scheduled one.
MCSetup ==
  {Job0,
   [Job0 EXCEPT !.method = "copy", !.deleteFailed = FALSE, !.has = {v1}, !.maySync = {sub}],
   [Job0 EXCEPT !.method = "move", !.deleteFailed = FALSE, !.postponeIfNoSubs = FALSE],
   [Job0 EXCEPT !.kind = "same", !.method = "move", !.has = {v1, v4}, !.mayMark = {root, rel},
                !.maySync = {root}],
   [Job0 EXCEPT !.kind = "file", !.method = "move", !.has = {v1}, !.maySync = {root},
                !.unpack = FALSE],
   [Job0 EXCEPT !.single = FALSE, !.kind = "all", !.method = "move", !.has = {v4},
                !.mayMark = {rel, sub}, !.postponeIfNoSubs = FALSE, !.delRarContents = FALSE],
   [Job0 EXCEPT !.single = FALSE, !.runner = TRUE, !.kind = "all", !.method = "copy",
                !.protected = TRUE, !.has = {v1}, !.mayMark = {rel, sub},
                !.postponeIfNoSubs = FALSE]}
=============================================================================
