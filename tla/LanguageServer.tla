--------------------------- MODULE LanguageServer ---------------------------
(***************************************************************************)
(* `ckc lsp` (cli/lsp/mod.rs, cli/lsp/workspace.rs): one process that      *)
(* handles one message after the other.  It keeps the open documents and   *)
(* the workspace folders, and answers workspace/symbol from the unsaved    *)
(* text of open documents and from the files below the folders, within     *)
(* limits.                                                                 *)
(*                                                                         *)
(* A folder, a file and a URI are numbers in the order of their names; a   *)
(* text stands for the symbols it declares.  Folders exist when announced. *)
(* The limits on directory entries, bytes and results are left out: like   *)
(* the limit on files each sets the flag where it stops the scan.          *)
(***************************************************************************)
EXTENDS Integers, FiniteSets

CONSTANTS Folders,      \* workspace folders an editor may announce
          SourcesBelow,      \* folder -> the .ck files below it
          DiskText,     \* file -> the text on disk
          Uris,         \* document URIs
          FileOf,       \* URI -> the file it names
          Texts,        \* texts of documents
          Oversized,    \* the texts beyond an analysis limit
          Versions,     \* document versions
          MaxRoots,     \* MAX_ROOTS, 16 in the code
          MaxFiles      \* MAX_CK_FILES, 512 in the code

ASSUME ServerAssumption ==
    /\ Folders \subseteq Nat /\ IsFiniteSet(Folders)
    /\ DOMAIN DiskText \subseteq Nat /\ IsFiniteSet(DOMAIN DiskText)
    /\ DiskText \in [DOMAIN DiskText -> Texts]
    /\ SourcesBelow \in [Folders -> SUBSET DOMAIN DiskText]
    /\ Uris \subseteq Nat
    /\ FileOf \in [Uris -> DOMAIN DiskText]
    /\ MaxRoots \in Nat \ {0} /\ MaxFiles \in Nat \ {0}

SourceFiles == DOMAIN DiskText
NoText == "no text"      \* DocumentSnapshot without text
Closed == [version |-> -1, text |-> NoText]  \* a document that is not open
Documents == [version : Versions, text : Texts \cup {NoText}] \cup {Closed}

VARIABLES server,     \* the lifecycle of the server
          documents, \* URI -> its snapshot
          roots,     \* the folders the server knows
          shown,     \* URI -> the snapshot of the last diagnostics published
          folders,   \* the folders the editor has announced (history)
          answer,    \* the last answer to workspace/symbol
          reply      \* the kind of the last response

lspVars == <<server, documents, roots, shown, folders, answer, reply>>

LspInit ==
    /\ server = "started"
    /\ documents = [u \in Uris |-> Closed]
    /\ roots = {}
    /\ shown = [u \in Uris |-> Closed]
    /\ folders = {}
    /\ answer = [items |-> {}, truncated |-> FALSE]
    /\ reply = "none"

\* The n smallest members of S, all of them when there are fewer.
Smallest(n, S) == {x \in S : Cardinality({y \in S : y < x}) < n}

-----------------------------------------------------------------------------
(* Lifecycle. *)

\* canonical_roots stops at one folder more than the limit, in the order in
\* which the editor lists them.
Canonical(F) ==
    {S \in SUBSET F : Cardinality(S) = MaxRoots + 1 \/ (S = F /\ Cardinality(F) <= MaxRoots)}

Initialize(F) ==
    /\ server = "started"
    /\ server' = "initializing"
    /\ roots' \in Canonical(F)
    /\ folders' = F
    /\ reply' = "success"
    /\ UNCHANGED <<documents, shown, answer>>

Initialized ==
    /\ server = "initializing"
    /\ server' = "serving"
    /\ UNCHANGED <<documents, roots, shown, folders, answer, reply>>

\* A request before the handshake is complete or after shutdown is answered
\* with an error; a notification there is dropped.
Refuse ==
    /\ server # "serving" /\ server # "exited"
    /\ reply' = IF server = "shutdown" THEN "has shut down" ELSE "not initialized"
    /\ UNCHANGED <<server, documents, roots, shown, folders, answer>>

Shutdown ==
    /\ server = "serving"
    /\ server' = "shutdown"
    /\ reply' = "success"
    /\ UNCHANGED <<documents, roots, shown, folders, answer>>

\* exit, the end of the input, or a frame that cannot be read or written.
Exit ==
    /\ server # "exited"
    /\ server' = "exited"
    /\ UNCHANGED <<documents, roots, shown, folders, answer, reply>>

-----------------------------------------------------------------------------
(* Documents. *)

\* Mutant: an oversized text leaves the earlier snapshot in place.
AnalyzeOrKeep(u, v, t) ==
    /\ documents' = [documents EXCEPT ![u] =
                        IF t \in Oversized THEN @ ELSE [version |-> v, text |-> t]]
    /\ shown' = [shown EXCEPT ![u] =
                    [version |-> v, text |-> IF t \in Oversized THEN NoText ELSE t]]

\* analyze_and_publish: an oversized text is remembered without its text.
Analyze(u, v, t) ==
    LET snapshot == [version |-> v, text |-> IF t \in Oversized THEN NoText ELSE t]
    IN  /\ documents' = [documents EXCEPT ![u] = snapshot]
        /\ shown' = [shown EXCEPT ![u] = snapshot]

DidOpen(u, v, t) ==
    /\ server = "serving"
    /\ Analyze(u, v, t)
    /\ UNCHANGED <<server, roots, folders, answer, reply>>

\* Only a version above the one that is open counts.
DidChange(u, v, t) ==
    /\ server = "serving"
    /\ documents[u] # Closed /\ v > documents[u].version
    /\ Analyze(u, v, t)
    /\ UNCHANGED <<server, roots, folders, answer, reply>>

DidClose(u) ==
    /\ server = "serving"
    /\ documents' = [documents EXCEPT ![u] = Closed]
    /\ shown' = [shown EXCEPT ![u] = Closed]
    /\ UNCHANGED <<server, roots, folders, answer, reply>>

-----------------------------------------------------------------------------
(* Workspace folders and symbols. *)

\* Mutant: the folders added by an event are all kept.
ChangeFoldersUnbounded(added, removed) ==
    /\ server = "serving"
    /\ roots' = (roots \ removed) \cup added
    /\ folders' = (folders \ removed) \cup added
    /\ UNCHANGED <<server, documents, shown, answer, reply>>

\* update_roots: forget, append, sort, keep one more than the limit.
ChangeFolders(added, removed) ==
    /\ server = "serving"
    /\ \E S \in Canonical(added) :
          roots' = Smallest(MaxRoots + 1, (roots \ removed) \cup S)
    /\ folders' = (folders \ removed) \cup added
    /\ UNCHANGED <<server, documents, shown, answer, reply>>

OpenUris(f) == {u \in Uris : FileOf[u] = f /\ documents[u] # Closed}

OpenFiles == {f \in SourceFiles : OpenUris(f) # {}}

\* Of several URIs of one file the first one counts, even without a text.
OpenSources ==
    LET uri(f) == CHOOSE u \in OpenUris(f) : \A w \in OpenUris(f) : u <= w
    IN  {[file |-> f, text |-> documents[uri(f)].text] :
            f \in {g \in Smallest(MaxFiles, OpenFiles) : documents[uri(g)].text # NoText}}

\* Mutant: only documents with a text hide their file.
ShadowedByText == {f \in SourceFiles : \E u \in OpenUris(f) : documents[u].text # NoText}

\* The files that are not read from disk.
Shadowed == OpenFiles

\* The folders are scanned in order, each from its last file to its first; a
\* file counts in the first folder above it.
Scanned == Smallest(MaxRoots, roots)
Eligible == (UNION {SourcesBelow[r] : r \in Scanned}) \ Shadowed
FolderOf(f) ==
    CHOOSE r \in Scanned : /\ f \in SourcesBelow[r]
                           /\ \A q \in Scanned : f \in SourcesBelow[q] => r <= q
InEarlierFolders(f) == {g \in Eligible : FolderOf(g) < FolderOf(f)}
Earlier(f) == InEarlierFolders(f) \cup {g \in Eligible : FolderOf(g) = FolderOf(f) /\ g > f}

\* The scan ends when the room is used up; a file that finds no room in a
\* folder where the scan began with some raises the flag.
ScanFolders ==
    LET room == MaxFiles - Cardinality(OpenFiles)
    IN  [files |-> {f \in Eligible : Cardinality(Earlier(f)) < room},
         truncated |-> \E f \in Eligible : /\ Cardinality(InEarlierFolders(f)) < room
                                           /\ Cardinality(Earlier(f)) >= room]

\* Mutant: only the folder that does not fit raises no flag.
SymbolsOfKnownRoots ==
    LET full == Cardinality(OpenFiles) >= MaxFiles
        disk == IF full THEN {} ELSE ScanFolders.files
        read == OpenSources \cup {[file |-> f, text |-> DiskText[f]] : f \in disk}
    IN  [items |-> {s \in read : s.text \notin Oversized},
         truncated |-> \/ Cardinality(OpenFiles) > MaxFiles
                       \/ full /\ roots # {}
                       \/ ~full /\ ScanFolders.truncated
                       \/ \E s \in read : s.text \in Oversized]

Symbols ==
    LET full == Cardinality(OpenFiles) >= MaxFiles
        disk == IF full THEN {} ELSE ScanFolders.files
        read == OpenSources \cup {[file |-> f, text |-> DiskText[f]] : f \in disk}
    IN  [items |-> {s \in read : s.text \notin Oversized},
         truncated |-> \/ Cardinality(roots) > MaxRoots
                       \/ Cardinality(OpenFiles) > MaxFiles
                       \/ full /\ roots # {}
                       \/ ~full /\ ScanFolders.truncated
                       \/ \E s \in read : s.text \in Oversized]

WorkspaceSymbol ==
    /\ server = "serving"
    /\ answer' = Symbols
    /\ reply' = "success"
    /\ UNCHANGED <<server, documents, roots, shown, folders>>

\* The other requests answer from the text of the document, or null.
DocumentRequest(u) ==
    /\ server = "serving"
    /\ reply' = IF documents[u] = Closed \/ documents[u].text = NoText
                THEN "null" ELSE "success"
    /\ UNCHANGED <<server, documents, roots, shown, folders, answer>>

LspNext ==
    \/ \E F \in SUBSET Folders : Initialize(F)
    \/ Initialized \/ Refuse \/ Shutdown \/ Exit
    \/ \E u \in Uris, v \in Versions, t \in Texts : DidOpen(u, v, t) \/ DidChange(u, v, t)
    \/ \E u \in Uris : DidClose(u) \/ DocumentRequest(u)
    \/ \E added, removed \in SUBSET Folders : ChangeFolders(added, removed)
    \/ WorkspaceSymbol

LspSpec == LspInit /\ [][LspNext]_lspVars

-----------------------------------------------------------------------------
SymbolSource == [file : SourceFiles, text : Texts]

LspTypeOK ==
    /\ server \in {"started", "initializing", "serving", "shutdown", "exited"}
    /\ documents \in [Uris -> Documents] /\ shown \in [Uris -> Documents]
    /\ roots \subseteq Folders /\ Cardinality(roots) <= MaxRoots + 1
    /\ folders \subseteq Folders
    /\ answer.items \subseteq SymbolSource /\ answer.truncated \in BOOLEAN

\* A file open in the editor is answered from one text, the one last accepted
\* for a URI of that file, and never from what is on disk: workspace.rs
\* symbols, whose open documents shadow the disk even without a text.
OpenTextShadowsDisk ==
    [][answer' # answer =>
        \A s \in answer'.items :
            /\ s.file \in OpenFiles =>
                  \E u \in OpenUris(s.file) : shown[u].text = s.text
            /\ \A r \in answer'.items : r.file = s.file => r = s]_lspVars

\* Every file below an announced folder that the answer does not read.
Omitted == (UNION {SourcesBelow[r] : r \in folders}) \ (OpenFiles \cup {s.file : s \in Symbols.items})

\* An answer that leaves out files of the workspace says so: the comment at
\* workspace.rs:19, "Results and whether the bounded scan omitted any
\* otherwise eligible data.", as long as the editor never announced more
\* folders than the server keeps (update_roots drops them without a mark) and
\* the answer does not fill the room for files exactly (symbols stops before
\* the next folder without a mark).
OmissionIsReportedBelowLimits ==
    /\ server = "serving" /\ Omitted # {} /\ folders = roots
    /\ Cardinality(OpenFiles \cup {s.file : s \in Symbols.items}) < MaxFiles
    => Symbols.truncated
=============================================================================
