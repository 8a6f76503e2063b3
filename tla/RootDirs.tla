------------------------------ MODULE RootDirs ------------------------------
(***************************************************************************)
(* The list of root directories in the settings: components/root-dirs.vue  *)
(* of the web client, with setConfig and updateConfig of the store and the *)
(* PATCH of config/main at the server.                                     *)
(*                                                                         *)
(* The server keeps the list as the index of the default followed by the   *)
(* paths.  Each client edits a copy of it, saves the whole list and takes  *)
(* the list that the server pushes after every save.  A dialog that picks  *)
(* a path works on the copy as it was when the dialog was opened.          *)
(***************************************************************************)
EXTENDS Naturals, Sequences, SequencesExt, FiniteSets, Subsequences

CONSTANTS
  Client,    \* the browsers with the page open
  Path,      \* the directories a user can pick
  Lists,     \* the lists the server may start with
  None,
  MaxEdits   \* bound on the edits of the users

VARIABLES
  raw,       \* app.ROOT_DIRS
  dirs,      \* client -> rootDirs
  dialog,    \* client -> the dialog: what it is for, the copy it has, whether that is current
  patches,   \* client -> the saves on their way to the server
  pushes,    \* client -> the lists on their way to the client
  edits,     \* the edits so far
  wanted,    \* the paths the users want in the list (history variable)
  gone,      \* the paths they removed and saved (history variable)
  chosen,    \* the default they chose (history variable)
  unsaved,   \* the clients whose list was edited and not saved (history variable)
  crossed,   \* whether edits of two clients overlapped (history variable)
  defaultless \* whether the default was removed or edited away, or the server's list
              \* was not one that the page saves (history variable)

intent == <<wanted, gone, chosen, unsaved, crossed, defaultless>>
vars == <<raw, dirs, dialog, patches, pushes, edits, intent>>

Dir == [path : Path, default : BOOLEAN, selected : BOOLEAN]

\* What the page sends and the server keeps: the index, if there is a default, and the paths.
RawList == {l \in Seq(Path \cup Nat) : \A k \in DOMAIN l : k > 1 => l[k] \in Path}

----------------------------------------------------------------------------
\* The computed properties and their setters.
Paths(list) == [k \in DOMAIN list |-> list[k].path]
First(list, Test(_)) ==
  LET k == SelectInSeq(list, Test) IN IF k = 0 THEN None ELSE list[k].path
SelectedOf(list) == First(list, LAMBDA rd : rd.selected)
DefaultOf(list) == First(list, LAMBDA rd : rd.default)
WithSelected(list, path) == [k \in DOMAIN list |-> [list[k] EXCEPT !.selected = (list[k].path = path)]]
WithDefault(list, path) == [k \in DOMAIN list |-> [list[k] EXCEPT !.default = (list[k].path = path)]]
Has(list, path) == path \in ToSet(Paths(list))

\* transformRaw: what stands first is taken for the index, whatever it is.
TransformRaw(list) ==
  IF Len(list) < 2 THEN <<>>
  ELSE [k \in 1 .. Len(list) - 1 |->
          [path |-> list[k + 1], default |-> list[1] = k - 1, selected |-> list[1] = k - 1]]

\* Defect: the index counts from one.
ToSaveFromOne(list) ==
  LET paths == Paths(list)
      default == DefaultOf(list)
  IN  IF default = None THEN paths
      ELSE <<SelectInSeq(paths, LAMBDA p : p = default)>> \o paths

\* saveRootDirs: the index goes first if there is a default.
ToSave(list) ==
  LET paths == Paths(list)
      default == DefaultOf(list)
  IN  IF default = None THEN paths
      ELSE <<SelectInSeq(paths, LAMBDA p : p = default) - 1>> \o paths

\* The server's list: its paths and its default.
Indexed(list) == list # <<>> /\ list[1] \notin Path
PathsOf(list) == ToSet(list) \cap Path
DefaultPath(list) ==
  IF Indexed(list) /\ list[1] + 2 \in DOMAIN list THEN list[list[1] + 2] ELSE None

----------------------------------------------------------------------------
Others(c) == \E d \in Client \ {c} : patches[d] # <<>> \/ pushes[d] # <<>> \/ dialog[d] # None
Overlaps(c) == patches[c] # <<>> \/ pushes[c] # <<>> \/ Others(c)

Edits ==
  /\ edits < MaxEdits
  /\ edits' = edits + 1

Save(c, list) ==
  /\ patches' = [patches EXCEPT ![c] = Append(@, ToSave(list))]
  /\ unsaved' = unsaved \ {c}

\* A click on a root dir.
Select(c, path) ==
  /\ dialog[c] = None
  /\ Has(dirs[c], path) /\ path # SelectedOf(dirs[c])
  /\ dirs' = [dirs EXCEPT ![c] = WithSelected(@, path)]
  /\ UNCHANGED <<raw, dialog, patches, pushes, edits, intent>>

OpenDialog(c, what) ==
  /\ dialog[c] = None
  /\ Edits
  /\ what = "edit" => SelectedOf(dirs[c]) # None
  /\ dialog' = [dialog EXCEPT ![c] = [what |-> what, list |-> dirs[c], current |-> TRUE]]
  /\ crossed' = (crossed \/ Overlaps(c))
  /\ UNCHANGED <<raw, dirs, patches, pushes, wanted, gone, chosen, unsaved, defaultless>>

Cancelled(c) ==
  /\ dialog[c] # None
  /\ dialog' = [dialog EXCEPT ![c] = None]
  /\ UNCHANGED <<raw, dirs, patches, pushes, edits, intent>>

\* A path that the list has already, other than the selected one, is only selected.
Known(c, path) ==
  LET list == dialog[c].list IN Has(list, path) /\ path # SelectedOf(list)

Picked(c, what) == dialog[c] # None /\ dialog[c].what = what /\ dialog' = [dialog EXCEPT ![c] = None]

\* add, for a path that is there.
AddKnown(c, path) ==
  /\ Picked(c, "add") /\ Known(c, path)
  /\ dirs' = [dirs EXCEPT ![c] = WithSelected(@, path)]
  /\ UNCHANGED <<raw, patches, pushes, edits, intent>>

\* add: the new root dir goes into the copy of the dialog, which is what is
\* saved only if the list was not replaced meanwhile.
Add(c, path) ==
  LET list == dialog[c].list
      isFirst == DefaultOf(list) = None
      added == Append(list, [path |-> path, default |-> isFirst, selected |-> isFirst])
  IN  /\ Picked(c, "add") /\ ~Known(c, path)
      /\ dirs' = IF dialog[c].current THEN [dirs EXCEPT ![c] = added] ELSE dirs
      /\ Save(c, dirs'[c])
      /\ wanted' = wanted \cup {path}
      /\ gone' = gone \ {path}
      /\ chosen' = IF isFirst THEN path ELSE chosen
      /\ crossed' = (crossed \/ Overlaps(c) \/ ~dialog[c].current)
      /\ UNCHANGED <<raw, pushes, edits, defaultless>>

\* edit, to a path that is there: the selected one is left out, nothing is saved.
EditToKnown(c, path) ==
  LET list == dialog[c].list
      edited == SelectedOf(list)
      wasDefault == DefaultOf(list) = path
      others == Chosen(list, {i \in DOMAIN list : list[i].path # edited})
  IN  /\ Picked(c, "edit") /\ Known(c, path)
      /\ dirs' = [dirs EXCEPT ![c] =
           [k \in DOMAIN others |-> [path |-> others[k].path,
                                     selected |-> others[k].path = path,
                                     default |-> wasDefault /\ others[k].path = path]]]
      /\ wanted' = wanted \ {edited}
      /\ unsaved' = unsaved \cup {c}
      /\ defaultless' = (defaultless \/ DefaultOf(dirs'[c]) = None)
      /\ crossed' = (crossed \/ ~dialog[c].current)
      /\ UNCHANGED <<raw, patches, pushes, edits, gone, chosen>>

\* edit: the selected root dir gets another path.
Edit(c, path) ==
  LET list == dialog[c].list
      edited == SelectedOf(list)
      k == SelectInSeq(list, LAMBDA rd : rd.selected)
      renamed == WithSelected([list EXCEPT ![k].path = path], path)
  IN  /\ Picked(c, "edit") /\ ~Known(c, path)
      /\ dirs' = [dirs EXCEPT ![c] = IF dialog[c].current THEN renamed ELSE WithSelected(@, path)]
      /\ Save(c, dirs'[c])
      /\ wanted' = (wanted \ {edited}) \cup {path}
      /\ gone' = IF Has(renamed, edited) THEN gone \ {path} ELSE (gone \cup {edited}) \ {path}
      /\ chosen' = IF DefaultOf(list) = edited THEN path ELSE chosen
      /\ crossed' = (crossed \/ Overlaps(c) \/ ~dialog[c].current)
      /\ UNCHANGED <<raw, pushes, edits, defaultless>>

\* remove: the default that is removed makes the removed path the default.
RemoveDir(c) ==
  LET list == dirs[c]
      selected == SelectedOf(list)
      k == SelectInSeq(list, LAMBDA rd : rd.selected)
      rest == Chosen(list, {i \in DOMAIN list : ~list[i].selected})
      next == IF rest = <<>> THEN None ELSE rest[IF k > 1 THEN k - 1 ELSE 1].path
      kept == IF DefaultOf(list) = selected THEN WithDefault(rest, selected) ELSE rest
  IN  /\ dialog[c] = None /\ selected # None
      /\ Edits
      /\ dirs' = [dirs EXCEPT ![c] = WithSelected(kept, next)]
      /\ Save(c, dirs'[c])
      /\ wanted' = wanted \ {selected}
      /\ gone' = gone \cup {selected}
      /\ defaultless' = (defaultless \/ (rest # <<>> /\ DefaultOf(list) = selected))
      /\ chosen' = IF rest = <<>> THEN None ELSE chosen
      /\ crossed' = (crossed \/ Overlaps(c))
      /\ UNCHANGED <<raw, dialog, pushes>>

SetDefault(c) ==
  LET selected == SelectedOf(dirs[c])
  IN  /\ dialog[c] = None /\ selected # None /\ selected # DefaultOf(dirs[c])
      /\ Edits
      /\ dirs' = [dirs EXCEPT ![c] = WithDefault(@, selected)]
      /\ Save(c, dirs'[c])
      /\ chosen' = selected
      /\ crossed' = (crossed \/ Overlaps(c))
      /\ UNCHANGED <<raw, dialog, pushes, wanted, gone, defaultless>>

\* PATCH config/main: the list is stored and pushed to every client.
Saved(c, k) ==
  /\ k \in DOMAIN patches[c]
  /\ raw' = patches[c][k]
  /\ patches' = [patches EXCEPT ![c] = RemoveAt(@, k)]
  /\ pushes' = [d \in Client |-> Append(pushes[d], raw')]
  /\ UNCHANGED <<dirs, dialog, edits, intent>>

\* PATCH config/main of another setting: the list goes to every client with the rest.
OtherSaved ==
  /\ Edits
  /\ pushes' = [d \in Client |-> Append(pushes[d], raw)]
  /\ UNCHANGED <<raw, dirs, dialog, patches, intent>>

\* configUpdated: the store changes, and the watcher takes the new list.
Pushed(c) ==
  /\ pushes[c] # <<>>
  /\ dirs' = [dirs EXCEPT ![c] = TransformRaw(Head(pushes[c]))]
  /\ pushes' = [pushes EXCEPT ![c] = Tail(@)]
  /\ dialog' = IF dialog[c] = None THEN dialog ELSE [dialog EXCEPT ![c].current = FALSE]
  /\ unsaved' = unsaved \ {c}
  /\ UNCHANGED <<raw, patches, edits, wanted, gone, chosen, crossed, defaultless>>

Init ==
  /\ raw \in Lists
  /\ dirs = [c \in Client |-> TransformRaw(raw)]
  /\ dialog = [c \in Client |-> None]
  /\ patches = [c \in Client |-> <<>>] /\ pushes = [c \in Client |-> <<>>]
  /\ edits = 0
  /\ wanted = PathsOf(raw) /\ gone = {} /\ chosen = DefaultPath(raw)
  /\ unsaved = {} /\ crossed = FALSE
  /\ defaultless = (ToSave(TransformRaw(raw)) # raw)

Next ==
  \/ OtherSaved
  \/ \E c \in Client :
    \/ \E path \in Path : \/ Select(c, path) \/ AddKnown(c, path) \/ Add(c, path)
                          \/ EditToKnown(c, path) \/ Edit(c, path)
    \/ \E what \in {"add", "edit"} : OpenDialog(c, what)
    \/ Cancelled(c) \/ RemoveDir(c) \/ SetDefault(c) \/ Pushed(c)
    \/ \E k \in DOMAIN patches[c] : Saved(c, k)

Spec == Init /\ [][Next]_vars
----------------------------------------------------------------------------
\* Type invariant.
TypeOK ==
  /\ raw \in RawList
  /\ dirs \in [Client -> Seq(Dir)]
  /\ \A c \in Client : /\ ToSet(patches[c]) \cup ToSet(pushes[c]) \subseteq RawList
                       /\ dialog[c] = None \/ dialog[c] \in [what : {"add", "edit"}, list : Seq(Dir),
                                                             current : BOOLEAN]
  /\ edits \in 0 .. MaxEdits
  /\ wanted \cup gone \subseteq Path /\ chosen \in Path \cup {None}
  /\ unsaved \subseteq Client /\ {crossed, defaultless} \subseteq BOOLEAN

Quiet == \A c \in Client : patches[c] = <<>> /\ pushes[c] = <<>> /\ dialog[c] = None

\* When every save is done, the server and all clients have the directories
\* that the users made of it, with the default that they chose, unless their
\* edits overlapped or the default was removed or edited away.
ListAsMade ==
  Quiet /\ ~crossed /\ ~defaultless =>
    /\ wanted \subseteq PathsOf(raw) /\ PathsOf(raw) \cap gone = {}
    /\ DefaultPath(raw) = chosen
    /\ \A c \in Client \ unsaved : Paths(dirs[c]) = Paths(TransformRaw(raw)) /\ DefaultOf(dirs[c]) = chosen
=============================================================================
