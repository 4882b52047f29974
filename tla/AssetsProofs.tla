---------------------------- MODULE AssetsProofs ----------------------------
(***************************************************************************)
(* Safety of module Assets for every set of paths, every set of trees on   *)
(* disk, and any number of changes and failures.                           *)
(***************************************************************************)
EXTENDS Assets, SequenceTheorems, TLAPS

\* The path whose page a URL stands for.
Target(path) == IF IsIndex(path) THEN Front(path) ELSE path

Typed ==
  /\ tree \in Tree
  /\ asked \in Url /\ url \in Url
  /\ at \in {"start", "open", "check", "done"}
  /\ caller \in {"page", "index"}
  /\ name \in Path

\* FileServer and Open agree on what is to be opened, whatever has happened.
Located ==
  /\ at \in {"open", "check"} /\ caller = "page" =>
       ~IsIndex(url.path) /\ name \in {url.path, indexPage}
  /\ at = "open" /\ caller = "index" => IsIndex(name)
  /\ at = "check" => caller = "page" /\ name = url.path /\ IndexOf(name) \in Path
  /\ at # "done" /\ tree[indexPage] = "none" => "no root index" \in mishap

\* FileServer has all open files, but for the one that Open is working on.
Held ==
  /\ at \in {"start", "done"} => open = {} /\ mine = {}
  /\ at = "open" => open = mine
  /\ at = "check" => open = mine \union {File(name)}

\* While nothing changes, each call finds what the ones before it have found.
Heading ==
  mishap \subseteq {"no root index"} =>
    /\ at = "start" => Target(url.path) = Target(asked.path)
    /\ at \in {"open", "check"} => url.path = Target(asked.path)
    /\ at = "open" /\ caller = "page" /\ name # url.path => tree[url.path] = "none"
    /\ at = "open" /\ caller = "index" =>
         name = IndexOf(url.path) /\ tree[url.path] = "dir" /\ tree[name] = "file"
    /\ at = "check" => tree[url.path] = "dir"
    /\ at = "done" /\ response[1] # "none" => response = Page(Target(asked.path))

IInv == Typed /\ Located /\ Held /\ Heading /\ NoListing

\* An index is one, and is in its directory.
LEMMA Indexes ==
  ASSUME NEW path \in Path
  PROVE  IsIndex(IndexOf(path)) /\ Front(IndexOf(path)) = path
<1>1. path \in Seq(STRING) /\ Index \in STRING
  BY AssetsAssumption
<1>2. /\ Len(IndexOf(path)) = Len(path) + 1 /\ IndexOf(path)[Len(path) + 1] = Index
      /\ Len(path) \in Nat
  BY <1>1, AppendProperties, LenProperties DEF IndexOf
<1>3. IndexOf(path) # <<>>
  BY <1>1, AppendProperties DEF IndexOf
<1>4. SubSeq(IndexOf(path), 1, Len(path)) = path
  BY <1>1, <1>2 DEF IndexOf
<1> QED BY <1>2, <1>3, <1>4 DEF IsIndex, Last, Front

\* No page is an index, and redirects stay on paths that may be there.
LEMMA Targets ==
  ASSUME NEW u \in Url
  PROVE  /\ Target(u.path) \in Path /\ ~IsIndex(Target(u.path))
         /\ Target(Target(u.path)) = Target(u.path)
         /\ u.path \in Path /\ u.slash \in BOOLEAN
BY AssetsAssumption DEF Url, Target, IsIndex

\* What the trees have in common.
LEMMA Trees ==
  ASSUME NEW t \in Tree
  PROVE  /\ t[<<>>] = "dir" /\ <<>> \in Path /\ indexPage \in Path /\ IsIndex(indexPage)
         /\ \A path \in Path :
              /\ t[path] \in {"file", "dir", "none"}
              /\ t[path] = "dir" => ~IsIndex(path) /\ IndexOf(path) \in Path
<1>1. <<>> \in Path /\ indexPage \in Path /\ t[<<>>] = "dir"
  BY AssetsAssumption
<1>2. IsIndex(indexPage)
  BY <1>1, Indexes DEF indexPage
<1>3. t \in [Path -> {"file", "dir", "none"}]
  BY AssetsAssumption
<1>4. ASSUME NEW path \in Path, t[path] = "dir"
      PROVE  ~IsIndex(path) /\ IndexOf(path) \in Path
  <2>1. CASE path = <<>>
    BY <1>1, <2>1 DEF IsIndex, indexPage
  <2>2. CASE path # <<>>
    BY <1>4, <2>2, AssetsAssumption
  <2> QED BY <2>1, <2>2
<1> QED BY <1>1, <1>2, <1>3, <1>4

-----------------------------------------------------------------------------
(***************************************************************************)
(* Steps.                                                                  *)
(***************************************************************************)

\* A new request.
LEMMA GetStep ==
  ASSUME IInv, NEW u \in Url, Get(u)
  PROVE  IInv'
BY DEF IInv, Typed, Located, Held, Heading, NoListing, Get, RootIndexMissing, Target

\* A change of the tree, at any time.
LEMMA ChangeStep ==
  ASSUME IInv, Change
  PROVE  IInv'
<1>1. /\ tree' \in Tree /\ mishap \subseteq mishap' /\ "changed" \in mishap'
      /\ tree'[indexPage] = "none" => "no root index" \in mishap'
      /\ UNCHANGED <<asked, url, at, caller, name, open, mine, response>>
  BY DEF Change, RootIndexMissing
<1>2. Typed' /\ Located' /\ Held'
  BY <1>1 DEF IInv, Typed, Located, Held, File
<1>3. Heading' /\ NoListing'
  BY <1>1 DEF IInv, Heading, NoListing
<1> QED BY <1>2, <1>3 DEF IInv

\* FileServer redirects from an index, or opens the file of the URL.
LEMMA ServeStep ==
  ASSUME IInv, Serve
  PROVE  IInv'
<1>1. at = "start" /\ Typed /\ Located /\ Held /\ Heading /\ NoListing /\ Calm
  BY DEF IInv, Serve
<1>2. url.path \in Path /\ ~IsIndex(Target(url.path)) /\ Target(url.path) \in Path
  BY <1>1, Targets DEF Typed
<1>3. CASE IsIndex(url.path) /\ Redirect(Front(url.path), TRUE, mine)
  <2>1. url'.path = Target(url.path) /\ url' \in Url
    BY <1>2, <1>3 DEF Redirect, Target, Url
  <2>2. Target(url'.path) = Target(url.path)
    BY <1>2, <2>1 DEF Target
  <2>3. Typed' /\ Located' /\ Held'
    BY <1>1, <1>3, <2>1 DEF Redirect, Calm, treeVars, Typed, Located, Held
  <2>4. Heading' /\ NoListing'
    BY <1>1, <1>3, <2>2 DEF Redirect, Calm, treeVars, Heading, NoListing
  <2> QED BY <2>3, <2>4 DEF IInv
<1>4. CASE ~IsIndex(url.path) /\ CallOpen("page", url.path, mine)
  <2>1. Typed' /\ Located' /\ Held'
    BY <1>1, <1>2, <1>4 DEF CallOpen, Calm, treeVars, Typed, Located, Held
  <2>2. Heading' /\ NoListing'
    BY <1>1, <1>4 DEF CallOpen, Calm, treeVars, Heading, NoListing, Target
  <2> QED BY <2>1, <2>2 DEF IInv
<1> QED BY <1>3, <1>4 DEF Serve

\* Open returns an error, with only FileServer's files left open.
LEMMA RefusedStep ==
  ASSUME IInv, at \in {"open", "check"}, NEW kind \in {"missing", "error"}, NEW left,
         left \subseteq mine, Refused(kind, left), tree' = tree, mishap \subseteq mishap',
         caller = "index" => mishap' \intersect {"no root index", "open failed"} # {},
         mishap' \subseteq {"no root index"} =>
           <<kind, <<>>>> = Page(url.path) /\ caller = "page"
  PROVE  IInv'
<1>1. /\ at' = "done" /\ open' = {} /\ mine' = {}
      /\ response' = <<IF caller = "index" THEN "listing" ELSE kind, <<>>>>
      /\ UNCHANGED <<asked, url, caller, name>>
  BY DEF Refused
<1>2. Typed' /\ Located' /\ Held'
  BY <1>1 DEF IInv, Typed, Located, Held
<1>3. NoListing'
  BY <1>1 DEF NoListing
<1>4. ASSUME mishap' \subseteq {"no root index"}
      PROVE  response' = Page(Target(asked.path))'
  <2>1. url.path = Target(asked.path)
    BY <1>4 DEF IInv, Heading
  <2> QED BY <1>1, <1>4, <2>1 DEF Page, Target
<1>5. Heading'
  BY <1>1, <1>4 DEF Heading
<1> QED BY <1>2, <1>3, <1>5 DEF IInv

\* A file has been opened.
LEMMA FileStep ==
  ASSUME IInv, at = "open", tree[name] = "file", Opened(name, FALSE), Calm
  PROVE  IInv'
<1>1. Typed /\ Located /\ Held /\ Heading /\ NoListing
  BY DEF IInv
<1> DEFINE got == mine \union {File(name)}
<1>2. /\ Target(url.path) \in Path /\ url.path \in Path /\ url.slash \in BOOLEAN
      /\ Target(Target(asked.path)) = Target(asked.path)
  BY <1>1, Targets DEF Typed
<1>3. CASE Respond("content", name, got)
  <2>1. Typed' /\ Located' /\ Held' /\ NoListing'
    BY <1>1, <1>3 DEF Respond, Calm, treeVars, Typed, Located, Held, NoListing
  <2>2. ASSUME mishap \subseteq {"no root index"}
        PROVE  <<"content", name>> = Page(Target(asked.path))
    <3>1. url.path = Target(asked.path)
      BY <1>1, <2>2 DEF Heading
    <3>2. CASE caller = "index"
      BY <1>1, <2>2, <3>1, <3>2 DEF Heading, Page
    <3>3. CASE caller = "page"
      BY <1>1, <2>2, <3>1, <3>3 DEF Heading, Page, Located
    <3> QED BY <1>1, <3>2, <3>3 DEF Typed
  <2>3. Heading'
    BY <1>3, <2>2 DEF Respond, Calm, treeVars, Heading, Page, Target
  <2> QED BY <2>1, <2>3 DEF IInv
<1>4. CASE Respond("error", <<>>, got) /\ caller = "page" /\ url.path = <<>>
  <2>1. Typed' /\ Located' /\ Held' /\ NoListing'
    BY <1>1, <1>4 DEF Respond, Calm, treeVars, Typed, Located, Held, NoListing
  <2>2. ~(mishap \subseteq {"no root index"})
    <3>1. tree[<<>>] = "dir"
      BY <1>1, Trees DEF Typed
    <3> QED BY <1>1, <1>4, <3>1 DEF Heading
  <2>3. Heading'
    BY <1>4, <2>2 DEF Respond, Calm, treeVars, Heading
  <2> QED BY <2>1, <2>3 DEF IInv
<1>5. CASE Redirect(url.path, FALSE, got) /\ caller = "page" /\ url.path # <<>>
  <2>1. url'.path = url.path /\ url' \in Url
    BY <1>2, <1>5 DEF Redirect, Url
  <2>2. Typed' /\ Located' /\ Held' /\ NoListing'
    BY <1>1, <1>5, <2>1 DEF Redirect, Calm, treeVars, Typed, Located, Held, NoListing
  <2>3. Heading'
    BY <1>1, <1>2, <1>5, <2>1 DEF Redirect, Calm, treeVars, Heading, Target
  <2> QED BY <2>2, <2>3 DEF IInv
<1> QED BY <1>3, <1>4, <1>5 DEF Opened

\* A directory with an index has been opened.
LEMMA DirectoryStep ==
  ASSUME IInv, at = "check", tree[IndexOf(name)] = "file", Opened(name, TRUE), Calm
  PROVE  IInv'
<1>1. /\ Typed /\ Located /\ Held /\ Heading /\ NoListing
      /\ caller = "page" /\ name = url.path /\ IndexOf(name) \in Path
  BY DEF IInv, Located
<1> DEFINE got == mine \union {File(name)}
<1>2. /\ url.path \in Path /\ ~IsIndex(url.path) /\ IsIndex(IndexOf(name))
      /\ Target(Target(asked.path)) = Target(asked.path)
  BY <1>1, Targets, Indexes DEF Typed, Located
<1>3. CASE Redirect(url.path, TRUE, got)
  <2>1. url'.path = url.path /\ url' \in Url
    BY <1>2, <1>3 DEF Redirect, Url
  <2>2. Typed' /\ Located' /\ Held' /\ NoListing'
    BY <1>1, <1>3, <2>1 DEF Redirect, Calm, treeVars, Typed, Located, Held, NoListing
  <2>3. Heading'
    BY <1>1, <1>2, <1>3, <2>1 DEF Redirect, Calm, treeVars, Heading, Target
  <2> QED BY <2>2, <2>3 DEF IInv
<1>4. CASE CallOpen("index", IndexOf(url.path), got)
  <2>1. /\ at' = "open" /\ caller' = "index" /\ name' = IndexOf(name)
        /\ open' = open \union got /\ mine' = got
        /\ UNCHANGED <<tree, trouble, mishap, asked, url, response>>
    BY <1>1, <1>4 DEF CallOpen, Calm, treeVars
  <2>2. Typed' /\ Located'
    BY <1>1, <1>2, <2>1 DEF Typed, Located
  <2>3. Held' /\ NoListing'
    BY <1>1, <2>1 DEF Held, NoListing
  <2>4. Heading'
    BY <1>1, <2>1 DEF Heading
  <2> QED BY <2>2, <2>3, <2>4 DEF IInv
<1> QED BY <1>1, <1>3, <1>4 DEF Opened

\* What Open does with its argument.
LEMMA OpenFileStep ==
  ASSUME IInv, OpenFile
  PROVE  IInv'
<1>1. at = "open" /\ Typed /\ Located /\ Held /\ Heading /\ NoListing
  BY DEF IInv, OpenFile
<1>2. tree[indexPage] # "dir" /\ indexPage \in Path /\ IsIndex(indexPage)
  BY <1>1, Trees DEF Typed
<1>3. CASE FallsBack(name) /\ Fallback /\ Calm
           /\ UNCHANGED <<asked, url, at, caller, open, mine, response>>
  <2>1. tree[name] = "none" /\ name # indexPage /\ name' = indexPage
    BY <1>3 DEF FallsBack, Fallback
  <2>2. Typed' /\ Located' /\ Held' /\ NoListing'
    BY <1>1, <1>2, <1>3, <2>1 DEF Calm, treeVars, Typed, Located, Held, NoListing
  <2>3. Heading'
    BY <1>1, <1>3, <2>1 DEF Calm, treeVars, Heading, Located, Typed
  <2> QED BY <2>2, <2>3 DEF IInv
<1>4. CASE ~FallsBack(name) /\ tree[name] = "none" /\ Refused("missing", open) /\ Calm
  <2>1. name = indexPage /\ "no root index" \in mishap
    BY <1>1, <1>4 DEF FallsBack, Located
  <2>2. ASSUME mishap \subseteq {"no root index"}
        PROVE  caller = "page" /\ tree[url.path] = "none"
    BY <1>1, <1>4, <2>1, <2>2 DEF Heading, Located, Typed
  <2>3. mishap \subseteq {"no root index"} =>
          <<"missing", <<>>>> = Page(url.path) /\ caller = "page"
    BY <1>4, <2>1, <2>2 DEF Page
  <2> QED BY <1>1, <1>4, <2>1, <2>3, RefusedStep DEF Calm, treeVars, Held
<1>5. CASE OpenFails /\ Refused("error", open)
  <2>1. /\ tree' = tree /\ mishap \subseteq mishap' /\ "open failed" \in mishap'
        /\ open \subseteq mine
    BY <1>1, <1>5 DEF OpenFails, Held
  <2> QED BY <1>1, <1>5, <2>1, RefusedStep
<1>6. CASE tree[name] = "file" /\ Opened(name, FALSE) /\ Calm
  BY <1>1, <1>6, FileStep
<1>7. CASE /\ tree[name] = "dir" /\ Calm
           /\ at' = "check" /\ open' = open \union {File(name)}
           /\ UNCHANGED <<asked, url, caller, name, mine, response>>
  <2>1. ~IsIndex(name) /\ IndexOf(name) \in Path
    BY <1>1, <1>7, Trees DEF Typed
  <2>2. caller = "page" /\ name = url.path
    BY <1>1, <1>2, <2>1 DEF Located, Typed
  <2>3. Typed' /\ Located' /\ Held' /\ NoListing'
    BY <1>1, <1>7, <2>1, <2>2
       DEF Calm, treeVars, Typed, Located, Held, NoListing, File
  <2>4. Heading'
    BY <1>1, <1>7, <2>2 DEF Calm, treeVars, Heading
  <2> QED BY <2>3, <2>4 DEF IInv
<1> QED BY <1>3, <1>4, <1>5, <1>6, <1>7 DEF OpenFile

\* What Open does with a directory.
LEMMA CheckIndexStep ==
  ASSUME IInv, CheckIndex
  PROVE  IInv'
<1>1. at = "check" /\ Typed /\ Located /\ Held /\ Heading /\ NoListing
  BY DEF IInv, CheckIndex
<1>2. caller = "page" /\ name = url.path /\ open \ {File(name)} \subseteq mine
  BY <1>1 DEF Located, Held
<1>3. CASE tree[IndexOf(name)] = "file" /\ HasIndex /\ Calm
  BY <1>1, <1>3, DirectoryStep DEF HasIndex
<1>4. CASE tree[IndexOf(name)] = "none" /\ Unlisted("missing") /\ Calm
  <2>1. mishap \subseteq {"no root index"} =>
          <<"missing", <<>>>> = Page(url.path) /\ caller = "page"
    BY <1>1, <1>2, <1>4 DEF Heading, Page
  <2> QED BY <1>1, <1>2, <1>4, <2>1, RefusedStep DEF Calm, treeVars, Unlisted
<1>5. CASE OpenFails /\ Unlisted("error")
  <2>1. tree' = tree /\ mishap \subseteq mishap' /\ "open failed" \in mishap'
    BY <1>5 DEF OpenFails
  <2> QED BY <1>1, <1>2, <1>5, <2>1, RefusedStep DEF Unlisted
<1> QED BY <1>3, <1>4, <1>5 DEF CheckIndex

-----------------------------------------------------------------------------
(***************************************************************************)
(* Theorems.                                                               *)
(***************************************************************************)

\* FileServer, Open and the client agree in every state.
THEOREM Inductive == Spec => []IInv
<1>1. Init => IInv
  <2> SUFFICES ASSUME Init PROVE IInv
    OBVIOUS
  <2>1. <<>> \in Path
    BY AssetsAssumption
  <2>2. asked \in Url /\ asked.path = <<>>
    BY <2>1 DEF Init, Url, IsIndex
  <2> QED BY <2>1, <2>2 DEF Init, IInv, Typed, Located, Held, Heading, NoListing
<1>2. IInv /\ [Next]_vars => IInv'
  <2>1. ASSUME IInv, Next PROVE IInv'
    BY <2>1, GetStep, ChangeStep, ServeStep, OpenFileStep, CheckIndexStep DEF Next, Step
  <2>2. ASSUME IInv, UNCHANGED vars PROVE IInv'
    BY <2>2 DEF vars, treeVars, IInv, Typed, Located, Held, Heading, NoListing, File,
                Page, Target
  <2> QED BY <2>1, <2>2
<1> QED BY <1>1, <1>2, PTL DEF Spec

\* A request leaves no file open, on any of its ways through Open and however
\* the tree changes under it.
THEOREM AllClosed == Spec => []NothingLeft
<1>1. IInv => NothingLeft
  BY DEF IInv, Held, NothingLeft
<1> QED BY <1>1, Inductive, PTL

\* A directory is listed only if the root index is missing or could not be
\* opened at some time during the request.
THEOREM Unlistable == Spec => []NoListing
BY Inductive, PTL DEF IInv

\* Whatever is asked for, the redirects lead to its page.
THEOREM PageServed == Spec => []GetsPage
<1>1. IInv => GetsPage
  BY DEF IInv, Heading, GetsPage, Target
<1> QED BY <1>1, Inductive, PTL

=============================================================================
