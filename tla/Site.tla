--------------------------------- MODULE Site ---------------------------------
(***************************************************************************)
(* From the command line to the response: Config::parse(), the Router of   *)
(* src/router.cpp and the StaticFileHandler of src/static_file_handler.cpp *)
(* that TcpServer's constructor builds from the configuration, and the     *)
(* handling of one request.  Each call that looks at the file system is a  *)
(* step of its own: files may come and go in between.                      *)
(*                                                                         *)
(* A path of the file system is a sequence of names, a name a text.        *)
(***************************************************************************)
EXTENDS Config, Paths

CONSTANTS
  Inputs,     \* environments and command lines: [env, argv]
  Requests,   \* what clients ask for: [method, name, encoded], see Target
  Tree,       \* the file system: path -> [kind : "file", "dir" or "link", to]
  Volatile,   \* the paths in it that may disappear and come back
  RootOf      \* the path that each value of document_root names

(* Links do not change, and a link leads to a path without links; no name  *)
(* contains a slash; any argument may be a document root, and then names a *)
(* path; clients encode characters that Ascii gives a code.                *)
ASSUME SiteAssumption ==
  /\ Volatile \subseteq DOMAIN Tree
  /\ \A p \in DOMAIN Tree :
       /\ p \in Seq(Seq(STRING))
       /\ \A n \in DOMAIN p : \A i \in DOMAIN p[n] : p[n][i] # "/"
       /\ Tree[p].kind = "link" => Tree[p].to \in DOMAIN Tree
  /\ Defaults.document_root \in DOMAIN RootOf
  /\ \A in \in Inputs : in.argv \in Seq(DOMAIN RootOf)
  /\ \A s \in DOMAIN RootOf : RootOf[s] \in Seq(Seq(STRING))
  /\ \A r \in Requests :
       /\ r.name \in Seq(STRING)
       /\ r.encoded \subseteq {i \in DOMAIN r.name : r.name[i] \in DOMAIN Ascii}

VARIABLES
  pc,        \* "parse", "construct", "serve", then "route", "root", "regular" and
             \* "open" in Router::handle(); "done"; "exit" and "terminate"
  input,     \* the environment and the command line, until they are parsed
  config,    \* the result of Config::parse(), until the server is constructed
  roots,     \* document_root_ of the Router and of the StaticFileHandler
  missing,   \* the volatile paths that are not there
  stable,    \* history: none has gone or come, and no file has failed to open,
             \* since the request arrived
  req,       \* the request
  canonical, \* the path fs::canonical() has found
  response   \* [status, body, allow]

setupVars == <<input, config, roots>>
requestVars == <<req, canonical, response>>
vars == <<pc, setupVars, missing, stable, requestVars>>

(***************************************************************************)
(* The file system (external)                                              *)
(***************************************************************************)
(* There is something at p while the paths in gone are not there. *)
ExistsWithout(gone, p) == p = <<>> \/ (p \in DOMAIN Tree /\ \A q \in gone : ~IsPrefix(q, p))

(* Where a name in the directory d leads: to at most one path. *)
Enter(gone, d, name) ==
  LET q == Append(d, name)
  IN  IF ~ExistsWithout(gone, q) THEN {}
      ELSE IF Tree[q].kind = "link" THEN {t \in {Tree[q].to} : ExistsWithout(gone, t)}
      ELSE {q}

CanonicalWithout(gone, p) ==
  LET r[n \in 0..Len(p)] ==
        IF n = 0 THEN {<<>>} ELSE UNION {Enter(gone, d, p[n]) : d \in r[n - 1]}
  IN  r[Len(p)]

Exists(p) == ExistsWithout(missing, p)

(* fs::canonical(): a set of at most one path, empty if there is an error. *)
Canonical(p) == CanonicalWithout(missing, p)

(* fs::weakly_canonical(): of the longest part of p that exists, followed  *)
(* by the rest.                                                            *)
weakly_canonical(p) ==
  LET n == CHOOSE i \in 0..Len(p) :
             Canonical(SubSeq(p, 1, i)) # {} /\ \A j \in (i + 1)..Len(p) : Canonical(SubSeq(p, 1, j)) = {}
  IN  (CHOOSE q \in Canonical(SubSeq(p, 1, n)) : TRUE) \o SubSeq(p, n + 1, Len(p))

String(p) == FlattenSeq([i \in DOMAIN p |-> <<"/">> \o p[i]])

Touch(m) ==
  /\ pc \in {"construct", "serve", "route", "root", "regular", "open"}
  /\ missing' = m
  /\ stable' = FALSE
  /\ UNCHANGED <<pc, setupVars, requestVars>>

Vanish(p) == p \in Volatile \ missing /\ Touch(missing \cup {p})
Appear(p) == p \in missing /\ Touch(missing \ {p})

-----------------------------------------------------------------------------
(***************************************************************************)
(* main() and the constructors                                             *)
(***************************************************************************)
NoInput == [env |-> [PORT |-> {}, THREADS |-> {}, QUEUE_CAPACITY |-> {}], argv |-> <<>>]
NoRequest == [method |-> "GET", name |-> <<>>, encoded |-> {}]
NoResponse == [status |-> 0, body |-> <<>>, allow |-> {}]

Init ==
  /\ pc = "parse"
  /\ input \in Inputs
  /\ config = Defaults
  /\ roots = [router |-> <<>>, files |-> <<>>]
  /\ missing = {}
  /\ stable = TRUE
  /\ req = NoRequest
  /\ canonical = <<>>
  /\ response = NoResponse

ParseArguments ==
  /\ pc = "parse"
  /\ LET r == parse(input.env, input.argv)
     IN  /\ config' = r.cfg
         /\ pc' = IF r.end = "serve" THEN "construct" ELSE r.end
  /\ UNCHANGED <<input, roots, missing, stable, requestVars>>

(* The StaticFileHandler keeps the canonical form of the root, or the root *)
(* as it is configured if weakly_canonical() reports an error.  (What else *)
(* is configured does not matter to requests, and is dropped here.)        *)
Construct ==
  /\ pc = "construct"
  /\ LET p == RootOf[config.document_root]
     IN  \E root \in {weakly_canonical(p), p} : roots' = [router |-> p, files |-> root]
  /\ pc' = "serve"
  /\ input' = NoInput
  /\ config' = Defaults
  /\ UNCHANGED <<missing, stable, requestVars>>

-----------------------------------------------------------------------------
(***************************************************************************)
(* build_request(), Router::handle() and the handlers                      *)
(***************************************************************************)
(* The client encodes some characters of the name it asks for. *)
Target(r) == Encode(r.name, r.encoded)

Method(r) == IF r.method \in {"GET", "POST", "HEAD"} THEN r.method ELSE "UNKNOWN"

(* setup_default_routes(): by path and method, the text the handler        *)
(* answers with ("page" for one it reads from a file below the root).      *)
Pages == {"dashboard", "playground", "lab"}
Routes ==
  [p \in {<<"/", w>> : w \in Pages \cup {"work", "health", "hello", "metrics", "echo"}} |->
     CASE p[2] \in Pages -> [GET |-> "page"]
       [] p[2] \in {"work", "metrics"} -> [GET |-> p[2]]
       [] p[2] \in {"health", "hello"} -> [GET |-> p[2], HEAD |-> "empty"]
       [] p[2] = "echo" -> [POST |-> p[2]]]

Reply(status, body, allow) ==
  /\ response' = [status |-> status, body |-> body, allow |-> allow]
  /\ pc' = "done"
Text(t) == IF t = "empty" THEN <<>> ELSE <<<<t>>>>
NotFound == Reply(404, Text("Not Found"), {})

ReceiveRequest(r) ==
  /\ pc = "serve"
  /\ pc' = "route"
  /\ req' = r
  /\ stable' = TRUE
  /\ UNCHANGED <<setupVars, missing, canonical, response>>

Routed == pc = "route" /\ Target(req) \in DOMAIN Routes

(* A file is opened, which also fails for want of descriptors or of the   *)
(* right to read it, and answered with or not found.                       *)
Open(file, body) ==
  \/ Exists(file) /\ Reply(200, body, {}) /\ UNCHANGED stable
  \/ NotFound /\ stable' = (stable /\ ~Exists(file))

(* The path is registered, with this method. *)
CallHandler ==
  /\ Routed
  /\ req.method \in DOMAIN Routes[Target(req)]
  /\ LET text == Routes[Target(req)][req.method]
         page == weakly_canonical(Append(roots.router, <<Target(req)[2], ".html">>))
     IN  IF text = "page" THEN Open(page, page)
         ELSE Reply(200, Text(text), {}) /\ UNCHANGED stable
  /\ UNCHANGED <<setupVars, missing, req, canonical>>

(* Mutant of NotAllowed: the header names the methods the server knows. *)
NotAllowedAtAll ==
  /\ Routed
  /\ req.method \notin DOMAIN Routes[Target(req)]
  /\ Reply(405, Text("Method Not Allowed"), {"GET", "POST", "HEAD"})
  /\ UNCHANGED <<setupVars, missing, stable, req, canonical>>

(* The path is registered, with other methods only. *)
NotAllowed ==
  /\ Routed
  /\ req.method \notin DOMAIN Routes[Target(req)]
  /\ Reply(405, Text("Method Not Allowed"), DOMAIN Routes[Target(req)])
  /\ UNCHANGED <<setupVars, missing, stable, req, canonical>>

(* The path is not registered, and there is no file for this method. *)
NotRouted ==
  /\ pc = "route" /\ ~Routed
  /\ Method(req) \notin {"GET", "HEAD"}
  /\ NotFound
  /\ UNCHANGED <<setupVars, missing, stable, req, canonical>>

-----------------------------------------------------------------------------
(***************************************************************************)
(* StaticFileHandler::serve()                                              *)
(***************************************************************************)
(* Mutant of Normalized: no index for the root. *)
NormalizedAsIs == normalize_path(url_decode(Target(req)))

Normalized ==
  LET n == normalize_path(url_decode(Target(req)))
  IN  IF n = <<>> THEN <<<<"index.html">>>> ELSE n

(* An error of fs::canonical(), or the path it finds. *)
Locate ==
  /\ pc = "route" /\ ~Routed
  /\ Method(req) \in {"GET", "HEAD"}
  /\ LET found == Canonical(roots.files \o Normalized)
     IN  \/ found = {} /\ NotFound /\ UNCHANGED canonical
         \/ canonical' \in found /\ pc' = "root" /\ UNCHANGED response
  /\ UNCHANGED <<setupVars, missing, stable, req>>

(* Mutant of Within: the root's name is compared without a separator. *)
WithinName(file, root) == IsPrefix(String(root), String(file))

(* file_str starts with root_str and a separator. *)
Within(file, root) == IsPrefix(String(root) \o <<"/">>, String(file))

(* Router::handle() empties the body of what serve() returns for HEAD. *)
Body(body) == IF Method(req) = "HEAD" THEN <<>> ELSE body

CheckRoot ==
  /\ pc = "root"
  /\ LET found == Canonical(roots.files)
     IN  \/ found = {} /\ NotFound
         \/ \E root \in found :
              \/ ~Within(canonical, root) /\ Reply(403, Body(Text("403 Forbidden")), {})
              \/ Within(canonical, root) /\ pc' = "regular" /\ UNCHANGED response
  /\ UNCHANGED <<setupVars, missing, stable, req, canonical>>

(* fs::is_regular_file() is false for what has just disappeared. *)
CheckRegular ==
  /\ pc = "regular"
  /\ \/ Exists(canonical) /\ Tree[canonical].kind = "file" /\ pc' = "open" /\ UNCHANGED response
     \/ ~(Exists(canonical) /\ Tree[canonical].kind = "file") /\ NotFound
  /\ UNCHANGED <<setupVars, missing, stable, req, canonical>>

OpenAndRead ==
  /\ pc = "open"
  /\ Open(canonical, Body(canonical))
  /\ UNCHANGED <<setupVars, missing, req, canonical>>

-----------------------------------------------------------------------------
Over == pc \in {"done", "exit", "terminate"} /\ UNCHANGED vars

Next ==
  \/ ParseArguments
  \/ Construct
  \/ \E r \in Requests : ReceiveRequest(r)
  \/ CallHandler
  \/ NotAllowed
  \/ NotRouted
  \/ Locate
  \/ CheckRoot
  \/ CheckRegular
  \/ OpenAndRead
  \/ \E p \in Volatile : Vanish(p) \/ Appear(p)
  \/ Over

Spec == Init /\ [][Next]_vars

-----------------------------------------------------------------------------
(* Types, and the range of a parsed configuration: --threads 0, a negative *)
(* or a large number and an unknown hardware_concurrency() never leave a   *)
(* pool without a thread, nor a port beyond 16 bits.                       *)
TypeOK ==
  /\ pc \in {"parse", "construct", "serve", "route", "root", "regular", "open", "done",
            "exit", "terminate"}
  /\ pc = "construct" =>
       /\ config.port \in 0..(2^PortBits - 1)
       /\ config.thread_count \in 1..(2^IntBits - 1)
       /\ config.queue_capacity \in 0..(2^SizeBits - 1)
       /\ config.document_root \in DOMAIN RootOf
  /\ missing \subseteq Volatile
  /\ stable \in BOOLEAN
  /\ req.encoded \subseteq DOMAIN req.name
  /\ response.status \in {0, 200, 403, 404, 405}
  /\ response.allow \subseteq {"GET", "POST", "HEAD"}

(* The loop of Config::parse() finds what the command line means: of       *)
(* repeated options the last, over the environment, over the defaults, and *)
(* never a value that is itself spelled like an option; --help and a value *)
(* that does not convert end the process, whichever comes first.  Nothing  *)
(* is said of the number of threads when only THREADS gives it: there the  *)
(* code and its documentation differ (EnvironmentHonoured).                *)
ConfigMeans ==
  /\ pc \in {"construct", "exit", "terminate"} =>
       (IF pc = "construct" THEN "serve" ELSE pc) = MeansEnd(input.argv)
  /\ pc = "construct" =>
       \A o \in ValueOptions :
         Unread(input.env, input.argv, o) \/ AsMeant(config, input.env, input.argv, o)

(* Every variable of README, Command-Line Options, has the effect that the *)
(* table gives it.                                                         *)
EnvironmentHonoured ==
  pc = "construct" => \A o \in ValueOptions : AsMeant(config, input.env, input.argv, o)

(* The client encodes the characters that stand for others. *)
Properly(r) == \A i \in DOMAIN r.name : r.name[i] \in {"%", "+"} => i \in r.encoded

(* url_decode() gives back the name that a client has encoded, however     *)
(* much of it is encoded, also in the last three characters, and does not  *)
(* decode what it has decoded.                                             *)
DecodeInverts ==
  pc = "route" /\ Properly(req) => url_decode(Target(req)) = req.name

(* normalize_path() finds the components that the path means: dots, empty  *)
(* components, both separators and NULs leave nothing behind, in whatever  *)
(* order they come, and ".." never climbs out at the top.                  *)
NormalizedAgrees ==
  pc = "route" => LET path == url_decode(Target(req)) IN normalize_path(path) = Meaning(path)

(* Path traversal is prevented (README, Static File Serving): whatever the *)
(* path, the links below the root and the files that come and go, a file   *)
(* that is served is a regular file, and lies strictly below the directory *)
(* that the document root names when nothing is missing.                   *)
OnlyBelowRoot ==
  pc = "done" /\ response.status = 200 /\ Target(req) \notin DOMAIN Routes =>
    /\ Tree[canonical].kind = "file"
    /\ \E root \in CanonicalWithout({}, roots.files) : IsStrictPrefix(root, canonical)

(* The file below the root that a request names. *)
Named(r) == LET m == Meaning(r.name) IN IF m = <<>> THEN <<<<"index.html">>>> ELSE m

(* The file a client names by its path is the file it gets, by GET with    *)
(* its content and by HEAD without, if nothing happens to it meanwhile.    *)
PresentIsServed ==
  (/\ pc = "done" /\ stable /\ Properly(req)
   /\ Target(req) \notin DOMAIN Routes /\ req.method \in {"GET", "HEAD"}) =>
  \A f \in Canonical(roots.files \o Named(req)) : \A root \in Canonical(roots.files) :
    Tree[f].kind = "file" /\ IsStrictPrefix(root, f) =>
      response = [status |-> 200, body |-> IF req.method = "GET" THEN f ELSE <<>>, allow |-> {}]

(* The table of README, API Endpoints, without "/". *)
Endpoints ==
  [dashboard |-> {"GET"}, playground |-> {"GET"}, lab |-> {"GET"}, work |-> {"GET"},
   health |-> {"GET", "HEAD"}, hello |-> {"GET", "HEAD"}, metrics |-> {"GET"}, echo |-> {"POST"}]

(* The table of README, API Endpoints: what is in it is answered (a page   *)
(* if its file can be opened), and the same path with another method by a  *)
(* 405 that lists exactly the methods of the table.                        *)
EndpointsAnswer ==
  pc = "done" => \A w \in DOMAIN Endpoints : Target(req) = <<"/", w>> =>
    IF req.method \notin Endpoints[w]
    THEN response.status = 405 /\ response.allow = Endpoints[w]
    ELSE \/ response.status = 200
         \/ w \in Pages /\ ~(stable /\ Canonical(Append(roots.router, <<w, ".html">>)) # {})

(* /work takes its parameters from the query string (README, Project       *)
(* Capabilities): a request with one is answered by it.                    *)
WorkHonoursQuery ==
  pc = "done" /\ req.method = "GET" /\ IsPrefix(<<"/", "work", "?">>, Target(req)) =>
    response.status = 200

=============================================================================
