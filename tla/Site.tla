-------------------------------- MODULE Site ---------------------------------
(***************************************************************************)
(* What mongoose's mg_serve_http answers (mg_http.c, mg_http_ssi.c and     *)
(* mg_http_webdav.c in mongoose.c): which of its ways to answer a request  *)
(* gets, from the options, the request and the files as they are now.      *)
(*                                                                         *)
(* A file is an inode; fs.names gives the inode behind each path (or None, *)
(* or Dir), fs.size its length in units and fs.mtime when it last changed. *)
(* How a path is spelled, and how a URI becomes a path, is module Uris'.   *)
(***************************************************************************)
EXTENDS Integers, Sequences, FiniteSets, FiniteSetsExt

CONSTANTS
  Paths, Inodes,
  Entry,      (* Entry[p]: over (the directories p is in), index (for a    *)
              (* directory: the index files to try, in order), hidden,     *)
              (* cgi, ssi (whether its name matches the pattern), parts    *)
              (* (the texts and includes of an SSI page), auth (the        *)
              (* per-directory password file that is looked for)           *)
  Passwords,  (* Passwords[f]: the lines of password file f, in order;     *)
              (* a file not in the domain is missing                       *)
  Opts,       (* domain, global, listing, acl, dav_root, dav_auth,         *)
              (* rewrites (in order: the targets it matches, whether it    *)
              (* leads to another server, whether it is for this port)     *)
  Endpoints,  (* the endpoints in the order of registration: the targets   *)
              (* each matches, how much of them, and its password file     *)
  MaxInclude  (* how deep SSI pages may include one another (10)           *)

None == "none"
Dir == "dir"
DavMethods == {"PUT", "DELETE", "MKCOL", "PROPFIND", "MOVE"}

Exists(fs, p) == fs.names[p] # None
IsDir(fs, p) == fs.names[p] = Dir

-----------------------------------------------------------------------------
(* Passwords.  The nonce is the time at which the server asked for a       *)
(* password; it holds for an hour.                                         *)
mg_check_nonce(age) == age >= 0 /\ age < 1

(* The first line for this user in this domain decides.                    *)
mg_check_digest_auth(cred, lines) ==
  LET hits == {i \in DOMAIN lines : lines[i].user = cred.user /\ lines[i].domain = Opts.domain}
  IN  hits # {} /\ lines[Min(hits)].pass = cred.pass

mg_http_check_digest_auth(r, file) ==
  /\ r.cred.user # None
  /\ mg_check_nonce(r.cred.age)
  /\ mg_check_digest_auth(r.cred, Passwords[file])

(* A password file that is missing lets everybody in, or nobody.           *)
mg_http_is_authorized(r, file, allowMissing) ==
  \/ Opts.domain = None \/ file = None
  \/ file \in DOMAIN Passwords /\ mg_http_check_digest_auth(r, file)
  \/ file \notin DOMAIN Passwords /\ allowMissing

-----------------------------------------------------------------------------
(* The first index file there is.                                          *)
mg_find_index_file(fs, d) ==
  LET hits == {i \in DOMAIN Entry[d].index : fs.names[Entry[d].index[i]] \in Inodes}
  IN  IF hits = {} THEN None ELSE Entry[d].index[Min(hits)]

mg_is_file_hidden(p) == Entry[p].hidden

mg_is_creation_request(r) == r.method \in {"MKCOL", "PUT"}

mg_is_dav_request(r) == r.method \in DavMethods

mg_http_construct_etag(fs, i) == <<fs.mtime[i], fs.size[i]>>

(* An If-None-Match header hides an If-Modified-Since one.                 *)
mg_is_not_modified(fs, r, i) ==
  IF r.etag # <<>> THEN r.etag = mg_http_construct_etag(fs, i)
  ELSE r.since >= 0 /\ fs.mtime[i] <= r.since

(* mg_http_parse_range_header, and what mg_http_serve_file makes of it: a  *)
(* range without an end goes to the end of the file; one with a negative   *)
(* number is ignored.                                                      *)
mg_http_parse_range_header(r, size) ==
  LET n == Len(r.range)
      r1 == IF n > 0 THEN r.range[1] ELSE 0
      asked == IF n > 1 THEN r.range[2] ELSE 0
      r2 == IF n = 1 THEN size - 1 ELSE asked
  IN  IF n = 0 \/ r1 < 0 \/ asked < 0 THEN [status |-> 200, r1 |-> 0, cl |-> size]
      ELSE IF r1 > r2 \/ r2 >= size THEN [status |-> 416, r1 |-> 0, cl |-> 0]
      ELSE [status |-> 206, r1 |-> r1, cl |-> r2 - r1 + 1]

(* What a directory listing shows.                                         *)
mg_scan_directory(fs, d) ==
  {p \in Paths : d \in Entry[p].over /\ Exists(fs, p) /\ ~mg_is_file_hidden(p)
                 /\ ~\E e \in Entry[p].over : d \in Entry[e].over}

(* mg_send_ssi_file with mg_do_ssi_include and mg_send_file_data: the      *)
(* first k parts of page p, included l levels deep.                        *)
mg_send_ssi_file(fs) ==
  LET out[t \in (0..MaxInclude + 1) \X Paths \X Nat] ==
        LET l == t[1]
            p == t[2]
            part == Entry[p].parts[t[3]]
        IN  IF l > MaxInclude THEN <<"too deep">>
            ELSE IF t[3] = 0 THEN <<>>
            ELSE out[<<l, p, t[3] - 1>>] \o
                 (IF part \notin Paths THEN <<part>>
                  ELSE IF fs.names[part] \notin Inodes THEN <<"include error">>
                  ELSE IF Entry[part].ssi THEN out[<<l + 1, part, Len(Entry[part].parts)>>]
                  ELSE <<part>>)
  IN  [p \in Paths |-> out[<<0, p, Len(Entry[p].parts)>>]]

-----------------------------------------------------------------------------
(* mg_http_handle_forwarding: the first rule that matches the target and   *)
(* leads to another server.                                                *)
mg_http_handle_forwarding(r) ==
  \E i \in DOMAIN Opts.rewrites : r.target \in Opts.rewrites[i].match /\ Opts.rewrites[i].http

mg_http_send_port_based_redirect == \E i \in DOMAIN Opts.rewrites : Opts.rewrites[i].port

(* Mutant: the password file of the directory is not asked about.          *)
AuthorizedGlobally(r, p) == mg_http_is_authorized(r, Opts.global, TRUE)

(* The two password files every request is checked against.                *)
Authorized(r, p) ==
  /\ mg_http_is_authorized(r, Opts.global, TRUE)
  /\ mg_http_is_authorized(r, Entry[p].auth, TRUE)

DavAuthorized(r) ==
  /\ Opts.dav_auth # None
  /\ Opts.dav_auth = "-" \/ mg_http_is_authorized(r, Opts.dav_auth, TRUE)

(* mg_send_http_file: which way the request goes, and for which file.      *)
mg_send_http_file(fs, r) ==
  LET p == r.target
      dir == IsDir(fs, p)
      index == IF dir THEN mg_find_index_file(fs, p) ELSE None
      file == IF index # None THEN index ELSE p
      dav == mg_is_dav_request(r)
      way ==
        IF dir /\ ~r.slash /\ ~dav THEN "moved"
        ELSE IF r.info /\ ~Entry[file].cgi THEN "501"
        ELSE IF dav /\ ~Opts.dav_root THEN "501"
        ELSE IF ~Authorized(r, p) THEN "401"
        ELSE IF Entry[file].cgi THEN "cgi"
        ELSE IF (~Exists(fs, p) \/ mg_is_file_hidden(p)) /\ ~mg_is_creation_request(r) THEN "404"
        ELSE IF r.method = "PROPFIND" THEN "PROPFIND"
        ELSE IF dav /\ ~DavAuthorized(r) THEN "401"
        ELSE IF dav \/ r.method = "OPTIONS" THEN r.method
        ELSE IF dir /\ index = None THEN (IF Opts.listing THEN "list" ELSE "403")
        ELSE IF mg_is_not_modified(fs, r, fs.names[file]) THEN "304"
        ELSE IF Entry[file].ssi THEN "ssi"
        ELSE "file"
  IN  [way |-> way, file |-> file]

(* mg_serve_http, up to the answer.                                        *)
mg_serve_http(fs, r) ==
  IF ~Opts.acl THEN [way |-> "403", file |-> None]
  ELSE IF mg_http_handle_forwarding(r) THEN [way |-> "proxy", file |-> None]
  ELSE IF mg_http_send_port_based_redirect THEN [way |-> "moved", file |-> None]
  ELSE IF r.target = "above the root" THEN [way |-> "400", file |-> None]
  ELSE IF r.target \notin Paths THEN [way |-> "404", file |-> None]
  ELSE mg_send_http_file(fs, r)

(* mg_http_get_endpoint_handler: the endpoint that matches most of the     *)
(* target; of two that match as much, the one registered last.             *)
mg_http_get_endpoint_handler(r) ==
  LET hits == {e \in DOMAIN Endpoints : r.target \in Endpoints[e].match}
      best == {e \in hits : \A x \in hits : Endpoints[x].length <= Endpoints[e].length}
  IN  IF hits = {} THEN 0 ELSE Max(best)
=============================================================================
