--------------------------- MODULE SessionMemory ---------------------------
(***************************************************************************)
(* Imported sessions (session_memory.py over session_adapters.py): a       *)
(* person picks messages of a transcript another tool is still writing,    *)
(* sees the document they make, and imports exactly that; an import is     *)
(* quarantined until a person reviews it, and may be forgotten at any      *)
(* time, or exported to a file that can be imported again.                 *)
(*                                                                         *)
(* A call over a file reads it, then opens its transaction; a review shows *)
(* the row, waits for the person with no lock held, then opens its own.    *)
(***************************************************************************)
EXTENDS Naturals, FiniteSets

CONSTANTS
    Transcript,    \* files written by the tool whose sessions they are
    Bundle,        \* files written by export
    Message,       \* the text messages of the transcripts
    Person,        \* who runs the commands
    MaxImports,    \* MAX_IMPORTS
    MaxIds         \* bound of the imports ever made

VARIABLES
    files,      \* per file: what its adapter makes of it
    imports,    \* memory_session_imports: the row of each id
    lastImport, \* ids are uuids: never used again
    desk        \* per person: the command in progress and what was shown

importVars == <<files, imports, lastImport, desk>>

File == Transcript \cup Bundle
Nothing == [messages |-> {}, partial |-> FALSE]
Away == [op |-> "none"]

ASSUME ImportConstants == MaxImports \in Nat /\ Transcript \cap Bundle = {}

-----------------------------------------------------------------------------
\* The adapters take the text messages; what they only count is left out.
HostAppends(x) == \E m \in Message \ files[x].messages : files' = [files EXCEPT ![x].messages = @ \cup {m}]

\* A compacted or rewound transcript loses messages.
HostRewinds(x) == \E m \in files[x].messages : files' = [files EXCEPT ![x].messages = @ \ {m}]

\* selected_document; a selection of all messages of a bundle is the bundle.
Selected(content, chosen) ==
    [content EXCEPT !.messages = chosen, !.partial = @ \/ chosen # content.messages]

\* preview's binding: the file, all it holds, and the document made of it.
Binding(x, chosen) == [file |-> x, content |-> files[x], document |-> Selected(files[x], chosen)]

Parses(x, chosen) == chosen # {} /\ chosen \subseteq files[x].messages

PreviewImport(p, x, chosen) ==
    /\ desk[p] = Away
    /\ Parses(x, chosen)
    /\ desk' = [desk EXCEPT ![p] = [op |-> "shown", binding |-> Binding(x, chosen)]]
    /\ UNCHANGED <<files, imports, lastImport>>

\* import_session reads the file again and compares with the hash it is given.
WrongSameFile(w) ==   \* BUG (AsShown): any file that still has the messages
    Parses(w.file, w.document.messages)

SameFile(w) ==
    /\ Parses(w.file, w.document.messages)
    /\ Binding(w.file, w.document.messages) = w

ConfirmImport(p) ==
    /\ desk[p].op = "shown"
    /\ LET w == desk[p].binding IN
        desk' = [desk EXCEPT ![p] =
            IF SameFile(w)
            THEN [op |-> "insert", shown |-> w.document, document |-> Selected(files[w.file], w.document.messages)]
            ELSE Away]
    /\ UNCHANGED <<files, imports, lastImport>>

\* The rows of the family with this selection_hash, read in the transaction.
Duplicate(document) == {i \in DOMAIN imports : imports[i].document = document}

InsertImport(p) ==
    /\ desk[p].op = "insert"
    /\ desk' = [desk EXCEPT ![p] = Away]
    /\ UNCHANGED files
    /\ IF Duplicate(desk[p].document) # {} \/ Cardinality(DOMAIN imports) >= MaxImports
       THEN UNCHANGED <<imports, lastImport>>
       ELSE /\ lastImport < MaxIds
            /\ lastImport' = lastImport + 1
            /\ imports' = [i \in DOMAIN imports \cup {lastImport'} |->
                  IF i = lastImport' THEN [document |-> desk[p].document, status |-> "imported_unverified"]
                  ELSE imports[i]]

-----------------------------------------------------------------------------
\* review shows the item, for what is not reviewed yet.
PreviewReviewed(p, i) ==
    /\ desk[p] = Away
    /\ imports[i].status = "imported_unverified"
    /\ desk' = [desk EXCEPT ![p] = [op |-> "review", id |-> i, row |-> imports[i]]]
    /\ UNCHANGED <<files, imports, lastImport>>

\* gate.consume: the approval is for the digest of the row as it is now.
StillShown(w) == w.id \in DOMAIN imports /\ imports[w.id] = w.row

ReviewImport(p, decision) ==
    /\ desk[p].op = "review"
    /\ imports' = IF StillShown(desk[p])
                  THEN [imports EXCEPT ![desk[p].id].status = decision]
                  ELSE imports
    /\ desk' = [desk EXCEPT ![p] = Away]
    /\ UNCHANGED <<files, lastImport>>

\* The human is not there, or the command is killed.
Abandon(p) ==
    /\ desk[p] # Away
    /\ desk' = [desk EXCEPT ![p] = Away]
    /\ UNCHANGED <<files, imports, lastImport>>

ForgetImports(S) ==
    /\ imports' = [i \in DOMAIN imports \ S |-> imports[i]]
    /\ UNCHANGED <<files, lastImport, desk>>

Export(i, x) ==
    /\ files' = [files EXCEPT ![x] = imports[i].document]
    /\ UNCHANGED <<imports, lastImport, desk>>

-----------------------------------------------------------------------------
ImportInit ==
    /\ files = [x \in File |-> Nothing]
    /\ imports = << >>
    /\ lastImport = 0
    /\ desk = [p \in Person |-> Away]

ImportStep(p) ==
    \/ \E x \in File, chosen \in SUBSET Message : PreviewImport(p, x, chosen)
    \/ ConfirmImport(p)
    \/ InsertImport(p)
    \/ \E i \in DOMAIN imports : PreviewReviewed(p, i)
    \/ \E decision \in {"reviewed_reference", "rejected"} : ReviewImport(p, decision)
    \/ Abandon(p)

ImportNext ==
    \/ \E p \in Person : ImportStep(p)
    \/ \E x \in Transcript : (HostAppends(x) \/ HostRewinds(x)) /\ UNCHANGED <<imports, lastImport, desk>>
    \/ \E i \in DOMAIN imports : ForgetImports({i}) \/ \E x \in Bundle : Export(i, x)
    \/ imports # << >> /\ ForgetImports(DOMAIN imports)

ImportSpec == ImportInit /\ [][ImportNext]_importVars

-----------------------------------------------------------------------------
ImportsAsShown ==
    \A i \in DOMAIN imports' \ DOMAIN imports :
        /\ i > lastImport
        /\ \A j \in DOMAIN imports : imports[j].document # imports'[i].document
        /\ \E p \in Person :
              /\ desk[p].op = "insert" /\ desk'[p] = Away
              /\ imports'[i].document = desk[p].shown

ReviewsAsShown ==
    \A i \in DOMAIN imports \cap DOMAIN imports' :
        imports[i] # imports'[i] =>
            /\ imports[i].status = "imported_unverified"
            /\ imports'[i].document = imports[i].document
            /\ \E p \in Person : desk[p].op = "review" /\ desk[p].id = i /\ desk[p].row = imports[i]

\* What a person decides is what the person was shown.  An import is the
\* document of the file as it was shown ("session_import_preview_or_repository_
\* changed" otherwise, session_memory.py:251), though the tool writes on between
\* preview, second read and insert, and has a new id: what was cleared does not
\* come back; nor is it in the table already, reviewed or not, when two import it
\* at once, or from the bundle it was exported to.  A row is reviewed at most
\* once, by a person who was shown it as it is then, and by none whose row was
\* forgotten meanwhile.
AsShown == [][ImportsAsShown /\ ReviewsAsShown]_importVars

=============================================================================
