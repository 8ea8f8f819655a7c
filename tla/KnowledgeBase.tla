--------------------------- MODULE KnowledgeBase ---------------------------
(***************************************************************************)
(* The knowledge base: agent/knowledge_base.py over ChromaDB and Ollama's  *)
(* embeddings, with the two ways to it, the tools of                       *)
(* tools/knowledge_base_tool.py and the endpoints /kb of main.py.  Ollama  *)
(* and the database's disk come and go; every call is one handler of the   *)
(* event loop.  Tags, authors, dates and the ranking of results are left   *)
(* out, and the results' limit is taken to be above the number of entries. *)
(***************************************************************************)
EXTENDS FiniteSets

CONSTANTS
  COLLECTION_RUNBOOKS, COLLECTION_INCIDENTS, COLLECTION_CONFIGS,
  COLLECTION_SOPS, COLLECTION_KB,
  Ids,       \* bound: the entries that are ever made
  Texts,     \* contents and titles
  NoText,    \* "", which stands for an omitted argument too
  NoDim,     \* a collection that has never had a vector
  Unused, Gone,   \* an id that is still to be drawn, that of a deleted entry
  NoVector   \* Ollama's embedding of an empty prompt: []

ALL_COLLECTIONS ==
  {COLLECTION_RUNBOOKS, COLLECTION_INCIDENTS, COLLECTION_CONFIGS,
   COLLECTION_SOPS, COLLECTION_KB}

(* nomic-embed-text, and the 256 hash buckets of _local_embed_fallback:    *)
(* vectors of different lengths.                                           *)
Embedders == {"model", "local"}

Strings == Texts \cup {NoText}
Vector == [of : Strings, by : Embedders]
KnowledgeEntry ==
  [collection : ALL_COLLECTIONS, content : Strings, title : Strings, vector : Vector]

ASSUME KnowledgeAssumption ==
  /\ NoText \notin Texts
  /\ NoDim \notin Embedders
  /\ NoVector \notin Vector
  /\ Unused # Gone /\ {Unused, Gone} \cap KnowledgeEntry = {}

VARIABLES
  ollamaUp,   \* whether Ollama answers
  diskOK,     \* whether the database can be opened and used
  dims,       \* the embedder whose vectors each collection has room for
  entries,    \* what each id stands for
  added,      \* ids in collections that callers were told have been added there
              \* and were not told have been deleted from there
  deleted,    \* ids in collections that the tool said have been deleted there
  reply       \* the latest reply

vars == <<ollamaUp, diskOK, dims, entries, added, deleted, reply>>
told == <<added, deleted>>
world == <<ollamaUp, diskOK>>

(* What a call answers; the readers, in which collections and for which ids*)
(* they have looked, and what they have found.                             *)
Reply ==
  [kind : {"none", "ok", "failed", "found"},
   scope : SUBSET ALL_COLLECTIONS, only : SUBSET Ids, found : SUBSET Ids]
Says(kind) == [kind |-> kind, scope |-> {}, only |-> {}, found |-> {}]

IsEntry(id) == entries[id] \notin {Unused, Gone}
IsIn(id, scope) == IsEntry(id) /\ entries[id].collection \in scope

TypeOK ==
  /\ ollamaUp \in BOOLEAN /\ diskOK \in BOOLEAN
  /\ dims \in [ALL_COLLECTIONS -> Embedders \cup {NoDim}]
  /\ entries \in [Ids -> KnowledgeEntry \cup {Unused, Gone}]
  /\ added \subseteq Ids \X ALL_COLLECTIONS /\ deleted \subseteq Ids \X ALL_COLLECTIONS
  /\ reply \in Reply

Init ==
  /\ ollamaUp \in BOOLEAN /\ diskOK \in BOOLEAN
  /\ dims = [c \in ALL_COLLECTIONS |-> NoDim]
  /\ entries = [id \in Ids |-> Unused]
  /\ added = {} /\ deleted = {}
  /\ reply = Says("none")
-----------------------------------------------------------------------------
_embed_textsAnyLength(text) ==   \* mutant: a bucket for each word, not 256
  [of |-> text, by |-> IF ollamaUp THEN "model" ELSE NoDim]

(* One text: any failure of Ollama, and the local vector is taken.         *)
_embed_texts(text) ==
  IF ~ollamaUp THEN [of |-> text, by |-> "local"]
  ELSE IF text = NoText THEN NoVector ELSE [of |-> text, by |-> "model"]

(* ChromaDB takes a vector, to store or to search, whose length is that of *)
(* the collection; the first one that is stored decides it.                *)
Accepts(c, vector) ==
  diskOK /\ vector # NoVector /\ dims[c] \in {NoDim, vector.by}

Entry(c, title, content) ==
  [collection |-> c, content |-> content, title |-> title,
   vector |-> _embed_texts(content)]

SetDimension(c, vector) == dims' = [dims EXCEPT ![c] = vector.by]

(* What cannot be stored raises, and the caller is told.                   *)
add_entry(c, title, content) ==
  \E id \in Ids :
    /\ entries[id] = Unused
    /\ LET vector == _embed_texts(content)
       IN  IF Accepts(c, vector)
             THEN /\ entries' = [entries EXCEPT ![id] = Entry(c, title, content)]
                  /\ SetDimension(c, vector)
                  /\ added' = added \cup {<<id, c>>}
                  /\ reply' = Says("ok")
             ELSE reply' = Says("failed") /\ UNCHANGED <<entries, dims, added>>
    /\ UNCHANGED <<deleted, world>>

update_entryKeepingVector(id, c, content, title) ==   \* mutant: not embedded again
  LET vector == _embed_texts(content)
  IN  IF Accepts(c, vector)
        THEN /\ entries' = IF IsIn(id, {c})
                             THEN [entries EXCEPT ![id].content = content,
                                                  ![id].title = title]
                             ELSE entries
             /\ SetDimension(c, vector)
        ELSE UNCHANGED <<entries, dims>>

(* An id that the collection does not have is passed over, and what is left*)
(* out is overwritten with its default.                                    *)
update_entry(id, c, content, title) ==
  LET vector == _embed_texts(content)
  IN  IF Accepts(c, vector)
        THEN /\ entries' = IF IsIn(id, {c})
                             THEN [entries EXCEPT ![id] = Entry(c, title, content)]
                             ELSE entries
             /\ SetDimension(c, vector)
        ELSE UNCHANGED <<entries, dims>>

delete_entry(id, c) ==
  /\ entries' = IF diskOK /\ IsIn(id, {c}) THEN [entries EXCEPT ![id] = Gone]
                ELSE entries
  /\ UNCHANGED dims
-----------------------------------------------------------------------------
Finds(scope, only, found) ==
  [kind |-> "found", scope |-> scope, only |-> only, found |-> found]
Found(scope, only) == Finds(scope, only, {id \in only : IsIn(id, scope)})
Nothing(scope, only) == Finds(scope, only, {})

search_entriesSkipping(scope) ==   \* mutant: except Exception: continue
  LET readable == {c \in scope : Accepts(c, _embed_texts(CHOOSE q \in Texts : TRUE))}
  IN  reply' = Finds(scope, Ids, {id \in Ids : IsIn(id, readable)})

(* The first collection that cannot be searched ends the search, except    *)
(* that one which cannot be opened may be passed over (OSError).           *)
search_entries(scope) ==
  \/ \E q \in Texts :
       reply' = IF \A c \in scope : Accepts(c, _embed_texts(q))
                  THEN Found(scope, Ids) ELSE Says("failed")
  \/ ~diskOK /\ reply' = Nothing(scope, Ids)

(* Readers that take every failure for an empty collection ...             *)
get_entry(id, c) ==
  reply' = IF diskOK THEN Found({c}, {id}) ELSE Nothing({c}, {id})
list_entries(c) ==
  reply' = IF diskOK THEN Found({c}, Ids) ELSE Nothing({c}, Ids)

(* ... and the one that counts -1.                                         *)
get_stats ==
  reply' = IF diskOK THEN Found(ALL_COLLECTIONS, Ids) ELSE Says("failed")

build_rag_context(scope) == search_entries(scope)

Scopes == {ALL_COLLECTIONS} \cup {{c} : c \in ALL_COLLECTIONS}
-----------------------------------------------------------------------------
(* The tools.                                                              *)
Reads(read) == read /\ UNCHANGED <<dims, entries, told, world>>

kb_search == \E scope \in Scopes : Reads(search_entries(scope))
kb_get_rag_context == \E scope \in Scopes : Reads(build_rag_context(scope))
kb_list_entries == \E c \in ALL_COLLECTIONS : Reads(list_entries(c))
kb_get_entry == \E id \in Ids, c \in ALL_COLLECTIONS : Reads(get_entry(id, c))
kb_stats == Reads(get_stats)

AddTo(c) == \E title, content \in Texts : add_entry(c, title, content)
kb_add_runbook == AddTo(COLLECTION_RUNBOOKS)
kb_add_incident_doc == AddTo(COLLECTION_INCIDENTS)
kb_add_config_snippet == AddTo(COLLECTION_CONFIGS)
kb_add_sop == AddTo(COLLECTION_SOPS)

(* The ids that somebody can name.                                         *)
Drawn == {id \in Ids : entries[id] # Unused}

(* With tags alone, content and title are both left out.                   *)
kb_update_entry ==
  \E id \in Drawn, c \in ALL_COLLECTIONS, content, title \in Strings :
    /\ update_entry(id, c, content, title)
    /\ reply' = Says(IF Accepts(c, _embed_texts(content)) THEN "ok" ELSE "failed")
    /\ UNCHANGED <<told, world>>

kb_delete_entryUnchecked ==   \* mutant: success is not looked at, as in the endpoint
  \E id \in Drawn, c \in ALL_COLLECTIONS :
    /\ delete_entry(id, c)
    /\ added' = added \ {<<id, c>>} /\ deleted' = deleted \cup {<<id, c>>}
    /\ reply' = Says("ok")
    /\ UNCHANGED world

(* ChromaDB deletes any id there is or is not.                             *)
kb_delete_entry ==
  \E id \in Drawn, c \in ALL_COLLECTIONS :
    /\ delete_entry(id, c)
    /\ IF diskOK
         THEN /\ added' = added \ {<<id, c>>} /\ deleted' = deleted \cup {<<id, c>>}
              /\ reply' = Says("ok")
         ELSE reply' = Says("failed") /\ UNCHANGED told
    /\ UNCHANGED world

(* The endpoints that differ from the tools: any collection can be added   *)
(* to, an update and a deletion are acknowledged whatever came of them.    *)
kb_add == \E c \in ALL_COLLECTIONS : AddTo(c)
kb_update ==
  \E id \in Drawn, c \in ALL_COLLECTIONS, content, title \in Strings :
    /\ update_entry(id, c, content, title)
    /\ reply' = Says("ok")
    /\ UNCHANGED <<told, world>>
kb_delete ==
  \E id \in Drawn, c \in ALL_COLLECTIONS :
    /\ delete_entry(id, c)
    /\ added' = added \ {<<id, c>>} /\ reply' = Says("ok")
    /\ UNCHANGED <<deleted, world>>

WorldChanges ==
  /\ \/ ollamaUp' = ~ollamaUp /\ UNCHANGED diskOK
     \/ diskOK' = ~diskOK /\ UNCHANGED ollamaUp
  /\ reply' = Says("none")
  /\ UNCHANGED <<dims, entries, told>>

Next ==
  \/ kb_search \/ kb_get_rag_context \/ kb_list_entries \/ kb_get_entry \/ kb_stats
  \/ kb_add_runbook \/ kb_add_incident_doc \/ kb_add_config_snippet \/ kb_add_sop
  \/ kb_update_entry \/ kb_delete_entry
  \/ kb_add \/ kb_update \/ kb_delete
  \/ WorldChanges

Spec == Init /\ [][Next]_vars
-----------------------------------------------------------------------------
(* Whatever the outages during which they were made and changed, the vector*)
(* an entry is found by is that of its present content, and comparable with*)
(* the others of its collection (update_entry, _embed_texts).              *)
VectorsMatch ==
  \A id \in Ids :
    IsEntry(id) => /\ entries[id].vector.of = entries[id].content
                   /\ entries[id].vector.by = dims[entries[id].collection]

(* An entry that somebody was told has been added to a collection is there *)
(* until somebody is told otherwise, and one that the tool says is deleted *)
(* from a collection is never there again (add_entry, kb_delete_entry).    *)
TellsTheTruth ==
  \A id \in Ids, c \in ALL_COLLECTIONS :
    /\ <<id, c>> \in added => IsIn(id, {c})
    /\ <<id, c>> \in deleted => ~IsIn(id, {c})

(* While the disk is well, a reader that answers has seen all there is: no *)
(* collection is left out because it cannot be searched, as for Ollama.    *)
ReadsAreComplete ==
  diskOK /\ reply.kind = "found"
    => reply.found = {id \in reply.only : IsIn(id, reply.scope)}
=============================================================================
