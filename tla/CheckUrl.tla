------------------------------- MODULE CheckUrl -------------------------------
(***************************************************************************)
(* The routine check_url (check_url.c of proxies 2-4, 3-1 and 3-2) and the *)
(* part of the home directory it works on: ~/cache, whose subdirectories   *)
(* carry the first three digits of a SHA-1 and whose files the rest, and   *)
(* ~/logfile/logfile.txt.                                                  *)
(*                                                                         *)
(* The routine takes no lock, so each call on the file system is a step of *)
(* its own, and the calls of several processes interleave.  SHA-1 is       *)
(* abstract: DirOf gives the directory of a URL (URLs may share one) and   *)
(* the file of a URL is the URL itself, for no two URLs share a digest.    *)
(*                                                                         *)
(* The line for the log stays in the stdio buffer until fclose, which      *)
(* appends it to the file in one write.                                    *)
(***************************************************************************)
EXTENDS Processes, Sequences

CONSTANTS
  Urls,       \* URLs of requests
  NoUrl,      \* the empty string: the URL of a request that is not a GET
  Dirs,       \* subdirectories of ~/cache
  DirOf,      \* the subdirectory of each URL
  NoEntry,    \* readdir has no entry with a long enough name
  NoLine,     \* nothing in the stdio buffer
  HomeDirs    \* which of ~/cache and ~/logfile exist at the start

Folders == {"cache", "logfile"}

ASSUME CheckUrlAssumption ==
  /\ NoUrl \in Urls
  /\ DirOf \in [Urls -> Dirs]
  /\ NoEntry \notin Urls
  /\ HomeDirs \subseteq Folders

VARIABLES
  home,     \* directories made in the home directory
  log,      \* lines of ~/logfile/logfile.txt
  made,     \* subdirectories of ~/cache that exist
  stored,   \* URLs whose file exists
  first,    \* first long name readdir gives for each subdirectory
  url,      \* the caller's buffer
  step,     \* next step of each caller
  saw,      \* what the scan of the home directory found
  key,      \* URL that was hashed
  line      \* line in the stdio buffer of logfile.txt

diskVars == <<home, log, made, stored, first>>
callVars == <<url, step, saw, key, line>>

Miss(u) == [kind |-> "MISS", url |-> u]
Hit(u)  == [kind |-> "Hit", url |-> u]

Lines == [kind : {"MISS", "Hit"}, url : Urls]

CheckSteps == {"scan", "mkcache", "mklogdir", "creatlog", "hash", "lookup",
               "mkdir", "store", "flush"}

DiskTypeOK(Entries) ==
  /\ home \subseteq Folders
  /\ log \in Seq(Entries)
  /\ made \subseteq Dirs
  /\ stored \subseteq Urls
  /\ first \in [Dirs -> Urls \cup {NoEntry}]

CallTypeOK(Steps) ==
  /\ url \in [Procs -> Urls]
  /\ step \in [Procs -> Steps]
  /\ saw \in [Procs -> SUBSET Folders]
  /\ key \in [Procs -> Urls]
  /\ line \in [Procs -> Lines \cup {NoLine}]

DiskInit ==
  /\ home = HomeDirs
  /\ log = <<>>
  /\ made = {}
  /\ stored = {}
  /\ first = [d \in Dirs |-> NoEntry]

CallInit(start) ==
  /\ url = [p \in Procs |-> NoUrl]
  /\ step = [p \in Procs |-> start]
  /\ saw = [p \in Procs |-> {}]
  /\ key = [p \in Procs |-> NoUrl]
  /\ line = [p \in Procs |-> NoLine]

-----------------------------------------------------------------------------

Goto(p, s) == step' = [step EXCEPT ![p] = s]

\* mkdir, whose failure because the directory exists is only printed.
makeDir(dirs, d) == dirs \cup {d}

\* The name creat leaves in a directory, new or not.
makeFile(files, f) == files \cup {f}

\* The subdirectory named by the first three digits of the digest.
Subdir(p) == DirOf[key[p]]

\* Variant: the log directory is made without looking whether it is there.
AfterScanBlind(seen) == IF "cache" \notin seen THEN "mkcache" ELSE "mklogdir"

\* From "scan" on, the next thing to make of what the scan did not find.
AfterScan(seen) ==
  IF "cache" \notin seen THEN "mkcache"
  ELSE IF "logfile" \notin seen THEN "mklogdir" ELSE "hash"

(* The loop of readdir over the home directory. *)
Scan(p) ==
  /\ step[p] = "scan"
  /\ saw' = [saw EXCEPT ![p] = home]
  /\ Goto(p, AfterScan(home))
  /\ UNCHANGED <<diskVars, url, key, line>>

MakeCache(p) ==
  /\ step[p] = "mkcache"
  /\ home' = makeDir(home, "cache")
  /\ Goto(p, AfterScan(saw[p] \cup {"cache"}))
  /\ UNCHANGED <<log, made, stored, first, url, saw, key, line>>

MakeLogDir(p) ==
  /\ step[p] = "mklogdir"
  /\ home' = makeDir(home, "logfile")
  /\ Goto(p, "creatlog")
  /\ UNCHANGED <<log, made, stored, first, url, saw, key, line>>

(* makeFile of logfile.txt: creat truncates the file if it exists. *)
MakeLogFile(p) ==
  /\ step[p] = "creatlog"
  /\ log' = <<>>
  /\ Goto(p, "hash")
  /\ UNCHANGED <<home, made, stored, first, url, saw, key, line>>

(* fopen of logfile.txt for appending, and the hash of the buffer. *)
HashUrl(p) ==
  /\ step[p] = "hash"
  /\ key' = [key EXCEPT ![p] = url[p]]
  /\ Goto(p, "lookup")
  /\ UNCHANGED <<diskVars, url, saw, line>>

(* opendir of the subdirectory: there is none, a MISS. *)
LookupMissing(p) ==
  /\ step[p] = "lookup"
  /\ Subdir(p) \notin made
  /\ line' = [line EXCEPT ![p] = Miss(url[p])]
  /\ Goto(p, "mkdir")
  /\ UNCHANGED <<diskVars, url, saw, key>>

\* Variant: a subdirectory with a file is a Hit, without comparing names.
LookupHitAny(p) ==
  /\ step[p] = "lookup"
  /\ Subdir(p) \in made
  /\ first[Subdir(p)] # NoEntry
  /\ line' = [line EXCEPT ![p] = Hit(url[p])]
  /\ Goto(p, "flush")
  /\ UNCHANGED <<diskVars, url, saw, key>>

(* The loop of readdir stops at the first long name.  It is the file of    *)
(* the URL: a Hit.                                                         *)
LookupHit(p) ==
  /\ step[p] = "lookup"
  /\ Subdir(p) \in made
  /\ first[Subdir(p)] = key[p]
  /\ line' = [line EXCEPT ![p] = Hit(url[p])]
  /\ Goto(p, "flush")
  /\ UNCHANGED <<diskVars, url, saw, key>>

(* The first long name is another file: a MISS, whatever comes after it.   *)
LookupOther(p) ==
  /\ step[p] = "lookup"
  /\ Subdir(p) \in made
  /\ first[Subdir(p)] \notin {key[p], NoEntry}
  /\ line' = [line EXCEPT ![p] = Miss(url[p])]
  /\ Goto(p, "mkdir")
  /\ UNCHANGED <<diskVars, url, saw, key>>

(* No long name: readdir returns NULL, and the loop reads file->d_name. *)
LookupEmpty(p) ==
  /\ step[p] = "lookup"
  /\ Subdir(p) \in made
  /\ first[Subdir(p)] = NoEntry

\* Variant: the subdirectory is made, and makeFile forgotten.
MakeDirOnly(p) ==
  /\ step[p] = "mkdir"
  /\ made' = makeDir(made, Subdir(p))
  /\ Goto(p, "flush")
  /\ UNCHANGED <<home, log, stored, first, url, saw, key, line>>

MakeDir(p) ==
  /\ step[p] = "mkdir"
  /\ made' = makeDir(made, Subdir(p))
  /\ Goto(p, "store")
  /\ UNCHANGED <<home, log, stored, first, url, saw, key, line>>

(* makeFile, fopen, fputs and fclose of the URL's file.  readdir gives a   *)
(* new name before or after the one that was first: the order is that of   *)
(* the file system's hash of names.                                        *)
StoreFile(p) ==
  /\ step[p] = "store"
  /\ stored' = makeFile(stored, key[p])
  /\ \/ key[p] \notin stored /\ first' = [first EXCEPT ![Subdir(p)] = key[p]]
     \/ first[Subdir(p)] # NoEntry /\ UNCHANGED first
  /\ Goto(p, "flush")
  /\ UNCHANGED <<home, log, made, url, saw, key, line>>

\* Variant: the buffer is written out though no line is in it yet.
UnflushedEarly(p) == step[p] \in {"lookup", "mkdir", "store", "flush"}

(* fclose, and exit for a file still open, write the line out. *)
Unflushed(p) == step[p] \in {"mkdir", "store", "flush"}

Flush(p) == log' = IF Unflushed(p) THEN Append(log, line[p]) ELSE log

(* closedir, fclose and return: the routine's locals are gone, and line[p] *)
(* only stands for the value returned.                                     *)
CloseLog(p) ==
  /\ step[p] = "flush"
  /\ Flush(p)
  /\ Goto(p, "return")
  /\ saw' = [saw EXCEPT ![p] = {}]
  /\ key' = [key EXCEPT ![p] = NoUrl]
  /\ UNCHANGED <<home, made, stored, first, url, line>>

(* p leaves the caller's block, or ends: the buffer url and every local of *)
(* the call are gone.                                                      *)
Forget(p) ==
  /\ Goto(p, "end")
  /\ url' = [url EXCEPT ![p] = NoUrl]
  /\ saw' = [saw EXCEPT ![p] = {}]
  /\ key' = [key EXCEPT ![p] = NoUrl]
  /\ line' = [line EXCEPT ![p] = NoLine]

CheckUrl(p) ==
  \/ Scan(p) \/ MakeCache(p) \/ MakeLogDir(p) \/ MakeLogFile(p)
  \/ HashUrl(p)
  \/ LookupMissing(p) \/ LookupHit(p) \/ LookupOther(p)
  \/ MakeDir(p) \/ StoreFile(p)
  \/ CloseLog(p)

\* The value check_url returned to p.
IsHit(p) == line[p] \in {Hit(u) : u \in Urls}

\* A step that keeps every line of logfile.txt where it is.
LogGrows == Len(log) <= Len(log') /\ \A i \in 1..Len(log) : log'[i] = log[i]
=============================================================================
