----------------------------- MODULE StaticFiles -----------------------------
(***************************************************************************)
(* The static files of internal/webserver: the requests that routes.go     *)
(* hands to static_file_router.go, and its cache of what it found where.   *)
(*                                                                         *)
(* A request looks at the cache twice and at the disk up to three times,   *)
(* while other requests fill the cache and someone edits the files.  The   *)
(* external directory goes before the embedded files.  A browser sends     *)
(* the tag and the time of the copy it has, and keeps what it gets.  Some  *)
(* browsers are watched; of the requests of the others only what they do   *)
(* to the cache matters.                                                   *)
(*                                                                         *)
(* A file is its version: versions are numbered as they are written, and   *)
(* so are their times in order; EmbeddedVersion is what the program        *)
(* carries, which has no time.  Files are not empty.                       *)
(***************************************************************************)
EXTENDS Naturals, FiniteSets

CONSTANTS
    Paths, DefaultFile,
    EmbeddedFiles,   \* paths the embedded file system has
    Browsers, Others, \* the browsers that are watched, and the others
    CacheTimeout,    \* sfr.cacheTimeout, in ticks
    MaxCacheSize,    \* sfr.maxCacheSize
    MaxVersions,     \* bound on the external files written
    MaxAsks,         \* bound on the requests
    MaxClock         \* bound on the clock

ASSUME FilesAssumption ==
    /\ DefaultFile \in Paths /\ EmbeddedFiles \subseteq Paths /\ Browsers \cap Others = {}
    /\ IsFiniteSet(Paths) /\ "none" \notin Paths
ASSUME CacheAssumption == CacheTimeout \in Nat /\ MaxCacheSize \in Nat \ {0}
ASSUME FilesBoundsAssumption == {MaxVersions, MaxAsks, MaxClock} \subseteq Nat

VARIABLES
    external,     \* the version at each path of the external directory, or Missing
    versions,     \* versions written so far
    cache,        \* sfr.existenceCache
    request,      \* where the request of each browser is
    copies,       \* what each browser has
    asked,        \* requests so far
    clock,
    rightAt,      \* history: when each content was last the right one for a path
    mixed         \* history: an embedded file went out with the tag of an external one

diskVars  == <<external, versions>>
filesVars == <<diskVars, cache, request, copies, asked, clock, rightAt, mixed>>

Requesters == Browsers \cup Others

Missing         == 0
EmbeddedVersion == MaxVersions + 1
Versions        == 1 .. EmbeddedVersion

NoEntry   == [found |-> Missing, checked |-> MaxClock + 1]
NoRequest == [at |-> "none"]
NoCopy    == [path |-> "none"]

FileContents == Paths \X Versions

Requests ==
    [at: {"stat", "store", "meta", "restat", "read"},
     wanted: Paths,           \* the path the browser asked for
     path: Paths,             \* the path looked for: that one, or the default file's
     asks: BOOLEAN,           \* conditional headers
     found: Versions \cup {Missing},
     checked: 0 .. MaxClock,  \* lastCheck of the entry to store
     declared: Versions \cup {Missing}]  \* what the headers are about

FilesTypeOK ==
    /\ external \in [Paths -> 0 .. versions] /\ versions \in 0 .. MaxVersions
    /\ cache \in [Paths -> [found: Versions \cup {Missing}, checked: 0 .. MaxClock] \cup {NoEntry}]
    /\ Cardinality({p \in Paths : cache[p] # NoEntry}) <= MaxCacheSize
    /\ request \in [Requesters -> Requests \cup {NoRequest}]
    /\ copies \in [Browsers -> [path: Paths, tag: FileContents, content: FileContents] \cup {NoCopy}]
    /\ asked \in 0 .. MaxAsks /\ clock \in 0 .. MaxClock
    /\ rightAt \in [Paths -> [FileContents -> 0 .. MaxClock]]
    /\ mixed \in BOOLEAN

FilesInit ==
    /\ external = [p \in Paths |-> Missing]
    /\ versions = 0
    /\ cache = [p \in Paths |-> NoEntry]
    /\ request = [b \in Requesters |-> NoRequest]
    /\ copies = [b \in Browsers |-> NoCopy]
    /\ asked = 0 /\ clock = 0
    /\ rightAt = [p \in Paths |-> [c \in FileContents |-> 0]]
    /\ mixed = FALSE

-----------------------------------------------------------------------------
(* The files, and time.                                                    *)

\* checkFileExistence on a given external directory.
FoundIn(ext, p) ==
    IF ext[p] # Missing THEN ext[p]
    ELSE IF p \in EmbeddedFiles THEN EmbeddedVersion ELSE Missing

\* What a browser that asks for p should get: the default file where there is none.
RightFor(ext, p) ==
    IF FoundIn(ext, p) # Missing THEN <<p, FoundIn(ext, p)>>
                                 ELSE <<DefaultFile, FoundIn(ext, DefaultFile)>>

NoteRight ==
    rightAt' = [p \in Paths |-> [c \in FileContents |->
        IF c = RightFor(external', p) THEN clock' ELSE rightAt[p][c]]]

\* Someone writes a file.
WriteFile(p) ==
    /\ versions < MaxVersions
    /\ versions' = versions + 1
    /\ external' = [external EXCEPT ![p] = versions + 1]
    /\ UNCHANGED <<cache, request, copies, asked, clock, mixed>>
    /\ NoteRight

RemoveFile(p) ==
    /\ external[p] # Missing
    /\ external' = [external EXCEPT ![p] = Missing]
    /\ UNCHANGED <<versions, cache, request, copies, asked, clock, mixed>>
    /\ NoteRight

TimePasses ==
    /\ clock < MaxClock
    /\ clock' = clock + 1
    /\ UNCHANGED <<diskVars, cache, request, copies, asked, mixed>>
    /\ NoteRight

-----------------------------------------------------------------------------
(* ServeStaticFile.                                                        *)

\* Mutant: entries do not expire.
FreshForever(p) == cache[p] # NoEntry

\* getCachedFileInfo finds an entry.
Fresh(p) == cache[p] # NoEntry /\ clock - cache[p].checked <= CacheTimeout

\* A request once FileExists has looked at the cache.
Looked(wanted, p, asks) ==
    [at |-> IF Fresh(p) THEN "meta" ELSE "stat", wanted |-> wanted, path |-> p, asks |-> asks,
     found |-> IF Fresh(p) THEN cache[p].found ELSE Missing, checked |-> clock,
     declared |-> Missing]

\* A browser has one copy: it sends its tag and time when it asks for the same path.
Ask(b, p) ==
    /\ request[b] = NoRequest
    /\ asked < MaxAsks
    /\ asked' = asked + 1
    /\ b \in Others => ~Fresh(p)
    /\ request' = [request EXCEPT ![b] = Looked(p, p, b \in Browsers /\ copies[b].path = p)]
    /\ UNCHANGED <<diskVars, cache, copies, clock, rightAt, mixed>>

StatFile(b) ==
    /\ request[b].at = "stat"
    /\ request' = [request EXCEPT ![b].at = "store",
                                  ![b].found = FoundIn(external, request[b].path)]
    /\ UNCHANGED <<diskVars, cache, copies, asked, clock, rightAt, mixed>>

\* The entries evictOldestCacheEntry may choose: also when the path has one already.
Evictable ==
    IF Cardinality({p \in Paths : cache[p] # NoEntry}) < MaxCacheSize THEN {}
    ELSE {p \in Paths : /\ cache[p] # NoEntry
                        /\ \A q \in Paths : cache[q] # NoEntry =>
                               cache[p].checked <= cache[q].checked}

\* setCachedFileInfo, whatever is in the cache by now.
StoreEntry(b) ==
    /\ request[b].at = "store"
    /\ LET entry == [found |-> request[b].found, checked |-> request[b].checked] IN
       \/ /\ Evictable = {}
          /\ cache' = [cache EXCEPT ![request[b].path] = entry]
       \/ \E p \in Evictable :
             cache' = [[cache EXCEPT ![p] = NoEntry] EXCEPT ![request[b].path] = entry]
    /\ request' = [request EXCEPT ![b] =
           IF b \in Others THEN NoRequest ELSE [@ EXCEPT !.at = "meta"]]
    /\ UNCHANGED <<diskVars, copies, asked, clock, rightAt, mixed>>

\* handleSPAFallback: the default file is asked for, without the headers; if that is
\* missing too, or was what was missing, the answer is 404.
FallBack(b) ==
    /\ request[b].at = "meta" /\ request[b].found = Missing
    /\ request' = [request EXCEPT ![b] =
           IF @.path = DefaultFile THEN NoRequest ELSE Looked(@.wanted, DefaultFile, FALSE)]
    /\ UNCHANGED <<diskVars, cache, copies, asked, clock, rightAt, mixed>>

\* The second look at the cache: Missing when it has nothing.
Info(b) == IF Fresh(request[b].path) THEN cache[request[b].path].found ELSE Missing

\* A tag tells one content from another.
ETag(p, version) == <<p, version>>

\* checkConditionalRequest, its first half: the tags are the same.
SameTag(b) == request[b].asks /\ copies[b].tag = ETag(request[b].path, Info(b))

\* Its second half, which a tag that differs does not rule out: the file has a time, and
\* so has the copy.
Timed(b) ==
    /\ request[b].asks
    /\ Info(b) \notin {Missing, EmbeddedVersion} /\ copies[b].tag[2] # EmbeddedVersion

\* The file is not younger than the copy, whatever file the copy was of.
NotYounger(b) == Timed(b) /\ Info(b) <= copies[b].tag[2]

\* 304: the browser goes on with its copy.  A file that is younger may be so by less
\* than a second, and then counts as not modified.
AnswerNotModified(b) ==
    /\ request[b].at = "meta" /\ request[b].found # Missing
    /\ SameTag(b) \/ Timed(b)
    /\ request' = [request EXCEPT ![b] = NoRequest]
    /\ UNCHANGED <<diskVars, cache, copies, asked, clock, rightAt, mixed>>

\* The headers are about what the cache says now, whether that is external or not;
\* where it says nothing, or has no time, the file is looked at again.
DecideHeaders(b) ==
    /\ request[b].at = "meta" /\ request[b].found # Missing
    /\ ~SameTag(b) /\ ~NotYounger(b)
    /\ LET known      == Info(b) \notin {Missing, EmbeddedVersion}
           isEmbedded == request[b].found = EmbeddedVersion
       IN  /\ request' = [request EXCEPT
                  ![b].at = IF known \/ isEmbedded THEN "read" ELSE "restat",
                  ![b].declared = IF known THEN Info(b) ELSE EmbeddedVersion]
           /\ mixed' = (mixed \/ (known /\ isEmbedded))
    /\ UNCHANGED <<diskVars, cache, copies, asked, clock, rightAt>>

\* A file that is gone is an error.
StatAgain(b) ==
    /\ request[b].at = "restat"
    /\ LET r == request[b] IN
       request' = [request EXCEPT ![b] =
           IF external[r.path] = Missing THEN NoRequest
           ELSE [r EXCEPT !.at = "read", !.declared = external[r.path]]]
    /\ UNCHANGED <<diskVars, cache, copies, asked, clock, rightAt, mixed>>

\* The body is what is there by now; a body of another size than Content-Length says is
\* an error.
AnswerWith(b, there) ==
    LET r == request[b] IN
    \/ copies' = [copies EXCEPT ![b] = [path |-> r.wanted, tag |-> ETag(r.path, r.declared),
                                        content |-> <<r.path, there>>]]
    \/ there # r.declared /\ UNCHANGED copies

\* A file that is gone is an error.
ReadExternalFile(b) ==
    /\ request[b].at = "read" /\ request[b].found # EmbeddedVersion
    /\ \/ external[request[b].path] # Missing /\ AnswerWith(b, external[request[b].path])
       \/ external[request[b].path] = Missing /\ UNCHANGED copies
    /\ request' = [request EXCEPT ![b] = NoRequest]
    /\ UNCHANGED <<diskVars, cache, asked, clock, rightAt, mixed>>

ReadEmbeddedFile(b) ==
    /\ request[b].at = "read" /\ request[b].found = EmbeddedVersion
    /\ AnswerWith(b, EmbeddedVersion)
    /\ request' = [request EXCEPT ![b] = NoRequest]
    /\ UNCHANGED <<diskVars, cache, asked, clock, rightAt, mixed>>

-----------------------------------------------------------------------------
Serve(b) ==
    \/ StatFile(b) \/ StoreEntry(b) \/ FallBack(b)
    \/ AnswerNotModified(b) \/ DecideHeaders(b) \/ StatAgain(b)
    \/ ReadExternalFile(b) \/ ReadEmbeddedFile(b)

FilesNext ==
    \/ \E p \in Paths : RemoveFile(p) \/ WriteFile(p)
    \/ \E b \in Requesters : \E p \in Paths : Ask(b, p)
    \/ \E b \in Requesters : Serve(b)
    \/ TimePasses

FilesSpec == FilesInit /\ [][FilesNext]_filesVars

-----------------------------------------------------------------------------
(* Properties.                                                             *)

\* A browser that is told by the tag that its copy is good has what was the right
\* content for the path not longer ago than a cache entry lives, whatever was cached,
\* evicted, edited and read in between; unless an embedded file once went out under the
\* tag of an external one.  One told so by the time may keep its copy for good.
NotModifiedIsRecent ==
    [][\A b \in Browsers :
          AnswerNotModified(b) /\ SameTag(b) /\ ~mixed =>
              clock - rightAt[copies[b].path][copies[b].content] <= CacheTimeout]_filesVars

=============================================================================
