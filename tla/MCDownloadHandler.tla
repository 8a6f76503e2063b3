-------------------------- MODULE MCDownloadHandler --------------------------
\* Model-checking instance of DownloadHandler: a torrent and an nzb.
EXTENDS DownloadHandler

CONSTANTS t, n, p, q

MCClientOf == [d \in Download |-> IF d = t THEN "torrent" ELSE "nzb"]

\* A torrent that is moved, and two downloads that stay where they are.
MCPlacesOf == [d \in Download |-> {p, q}]
MCOwnPlace == [d \in Download |-> IF d = t THEN {p} ELSE {q}]

\* What the clients report: Transmission one flag, or none while it checks, Deluge also
\* sums of Paused, Completed and Seeded, uTorrent and nzbget Failed and Aborted too.
MCReports ==
  [d \in Download |->
     IF d = t THEN {{}, {"Downloading"}, {"Paused"}, {"Completed"}, {"Seeded"}, {"Aborted"},
                    {"Completed", "Paused"}, {"Completed", "Seeded", "Paused"}}
              ELSE {{"Downloading"}, {"Extracting"}, {"Completed"}, {"Failed"}, {"Aborted"}}]

MCSingleReports == [d \in Download |-> {{"Paused"}, {"Completed"}, {"Failed"}}]

MCDoneReports ==
  [d \in Download |->
     IF d = t THEN {{"Aborted"}, {"Completed", "Seeded", "Paused"}} ELSE {{"Failed"}}]
=============================================================================
