------------------------------- MODULE Assets -------------------------------
(***************************************************************************)
(* internal/assets: FileSystem.Open between http.FileServer, which calls   *)
(* it, and an http.FileSystem whose files somebody else may replace in the *)
(* meantime.  One GET request at a time; its client follows redirects.     *)
(*                                                                         *)
(* A path is the sequence of its names, and a URL a path with or without a *)
(* slash after it (the root has one).                                      *)
(***************************************************************************)
EXTENDS Naturals, SequencesExt

CONSTANTS
  Index,       \* the name index.html
  Path,        \* the paths that may have a file or a directory
  Tree,        \* what they may have: "file", "dir" or "none"
  MaxTrouble   \* bound on changes of the tree, and on opens that fail

IndexOf(path) == Append(path, Index)
indexPage == IndexOf(<<>>)
IsIndex(path) == path # <<>> /\ Last(path) = Index

\* The root is a directory, files are in directories, and no directory is
\* named index.html: no path goes through one.
ASSUME AssetsAssumption ==
  /\ Index \in STRING /\ Path \subseteq Seq(STRING)
  /\ {<<>>, indexPage} \subseteq Path
  /\ \A path \in Path \ {<<>>} : Front(path) \in Path /\ ~IsIndex(Front(path))
  /\ Tree \subseteq [Path -> {"file", "dir", "none"}]
  /\ \A tree \in Tree :
       /\ tree[<<>>] = "dir"
       /\ \A path \in Path \ {<<>>} :
            /\ tree[path] # "none" => tree[Front(path)] = "dir"
            /\ tree[path] = "dir" => ~IsIndex(path) /\ IndexOf(path) \in Path

VARIABLES
  tree,      \* what is on disk
  trouble,   \* number of changes and failures so far
  asked,     \* the URL the client wants
  mishap,    \* what has happened since then
  url,       \* the URL it has been redirected to
  at,        \* where FileServer or Open is
  caller,    \* which file FileServer opens: the one of the URL, or its index
  name,      \* the argument of Open
  open,      \* open files, as <<caller, path>>
  mine,      \* those that Open has returned to FileServer, which closes them
  response

treeVars == <<tree, trouble, mishap>>
vars == <<treeVars, asked, url, at, caller, name, open, mine, response>>

\* No slash after an index: FileServer tells it from the index then.
Url ==
  {u \in [path : Path, slash : BOOLEAN] :
     (u.path = <<>> => u.slash) /\ (IsIndex(u.path) => ~u.slash)}
File(path) == <<caller, path>>

Init ==
  /\ tree \in Tree /\ trouble = 0 /\ mishap = {}
  /\ asked = [path |-> <<>>, slash |-> TRUE] /\ url = asked
  /\ at = "done" /\ caller = "page" /\ name = <<>>
  /\ open = {} /\ mine = {}
  /\ response = <<"none", <<>>>>

-----------------------------------------------------------------------------
(***************************************************************************)
(* The world.                                                              *)
(***************************************************************************)

RootIndexMissing(t) == {m \in {"no root index"} : t[indexPage] = "none"}

Get(u) ==
  /\ at = "done"
  /\ asked' = u /\ url' = u /\ at' = "start"
  /\ mishap' = RootIndexMissing(tree)
  /\ response' = <<"none", <<>>>>
  /\ UNCHANGED <<tree, trouble, caller, name, open, mine>>

Change ==
  /\ trouble < MaxTrouble /\ trouble' = trouble + 1
  /\ tree' \in Tree \ {tree}
  /\ mishap' = mishap \union {"changed"} \union RootIndexMissing(tree')
  /\ UNCHANGED <<asked, url, at, caller, name, open, mine, response>>

Calm == UNCHANGED treeVars
OpenFails ==
  /\ trouble < MaxTrouble /\ trouble' = trouble + 1
  /\ mishap' = mishap \union {"open failed"}
  /\ UNCHANGED tree

-----------------------------------------------------------------------------
(***************************************************************************)
(* http.FileServer.  It closes the files that it has got in the end.       *)
(***************************************************************************)

Respond(kind, path, got) ==
  /\ at' = "done" /\ response' = <<kind, path>>
  /\ open' = open \ got /\ mine' = {}
  /\ UNCHANGED <<asked, url, caller, name>>

Redirect(path, slash, got) ==
  /\ at' = "start" /\ url' = [path |-> path, slash |-> slash]
  /\ open' = open \ got /\ mine' = {}
  /\ UNCHANGED <<asked, caller, name, response>>

CallOpen(who, path, got) ==
  /\ at' = "open" /\ caller' = who /\ name' = path
  /\ open' = open \union got /\ mine' = got
  /\ UNCHANGED <<asked, url, response>>

Serve ==
  /\ at = "start"
  /\ IF IsIndex(url.path) THEN Redirect(Front(url.path), TRUE, mine)
     ELSE CallOpen("page", url.path, mine)
  /\ Calm

\* Open returns a file.  A directory goes with a slash and with its index, a
\* file without.
Opened(path, isDir) ==
  LET got == mine \union {File(path)} IN
    \/ caller = "index" /\ Respond("content", path, got)
    \/ caller = "page" /\ isDir /\ ~url.slash /\ Redirect(url.path, TRUE, got)
    \/ caller = "page" /\ isDir /\ url.slash /\ CallOpen("index", IndexOf(url.path), got)
    \/ caller = "page" /\ ~isDir /\ ~url.slash /\ Respond("content", path, got)
    \/ /\ caller = "page" /\ ~isDir /\ url.slash
       /\ IF url.path = <<>> THEN Respond("error", <<>>, got) ELSE Redirect(url.path, FALSE, got)

\* Open returns an error, and leaves these files open.  A directory whose index
\* cannot be opened is listed.
Refused(kind, left) ==
  /\ at' = "done"
  /\ response' = <<IF caller = "index" THEN "listing" ELSE kind, <<>>>>
  /\ open' = left \ mine /\ mine' = {}
  /\ UNCHANGED <<asked, url, caller, name>>

-----------------------------------------------------------------------------
(***************************************************************************)
(* FileSystem.Open.                                                        *)
(***************************************************************************)

\* Broken: for the root index too, or never.
FallsBack_Always(path) == tree[path] = "none"
FallsBack_Never(path) == FALSE
FallsBack(path) == tree[path] = "none" /\ path # indexPage

\* Open is called again, for the root index.
Fallback == name' = indexPage

OpenFile ==
  /\ at = "open"
  /\ \/ /\ FallsBack(name) /\ Fallback /\ Calm
        /\ UNCHANGED <<asked, url, at, caller, open, mine, response>>
     \/ ~FallsBack(name) /\ tree[name] = "none" /\ Refused("missing", open) /\ Calm
     \/ OpenFails /\ Refused("error", open)
     \/ tree[name] = "file" /\ Opened(name, FALSE) /\ Calm
     \/ /\ tree[name] = "dir" /\ Calm
        /\ at' = "check" /\ open' = open \union {File(name)}
        /\ UNCHANGED <<asked, url, caller, name, mine, response>>

\* Broken: the index is returned in place of its directory.
HasIndex_ShortCircuit == Opened(IndexOf(name), FALSE)
HasIndex == Opened(name, TRUE)

\* Broken: without f.Close.
Unlisted_LeavesOpen(kind) == Refused(kind, open)
Unlisted(kind) == Refused(kind, open \ {File(name)})

\* A directory has been opened; its index is, and closed.
CheckIndex ==
  /\ at = "check"
  /\ \/ tree[IndexOf(name)] = "file" /\ HasIndex /\ Calm
     \/ tree[IndexOf(name)] = "none" /\ Unlisted("missing") /\ Calm
     \/ OpenFails /\ Unlisted("error")

Step == Serve \/ OpenFile \/ CheckIndex
Next == (\E u \in Url : Get(u)) \/ Change \/ Step

Spec == Init /\ [][Next]_vars

\* The server gets on with a request; nothing has to fail or to change.
FairSpec == Spec /\ WF_vars(Step)

-----------------------------------------------------------------------------
(***************************************************************************)
(* Properties.                                                             *)
(***************************************************************************)

\* What should be served for a path: the file, or the index of the directory;
\* the root index if there is neither.
Page(path) ==
  LET Content(p) == IF tree[p] = "file" THEN <<"content", p>> ELSE <<"missing", <<>>>>
  IN CASE tree[path] = "file" -> Content(path)
       [] tree[path] = "dir" -> Content(IndexOf(path))
       [] OTHER -> Content(indexPage)

\* Through all redirects a client gets what it asked for, and for an index the
\* page of its directory, if nothing changes in between.
GetsPage ==
  at = "done" /\ response[1] # "none" /\ mishap \subseteq {"no root index"} =>
    response = Page(IF IsIndex(asked.path) THEN Front(asked.path) ELSE asked.path)

\* "Directory listings are not served" (assets.go:19), also when files
\* change between the check in Open and the use in FileServer, as long as the
\* root index stays.
NoListing == response[1] = "listing" => mishap \intersect {"no root index", "open failed"} # {}

\* All files that a request opened are closed when it has ended.
NothingLeft == at = "done" => open = {}

\* Redirects end.
Answered == at # "done" ~> at = "done"

=============================================================================
