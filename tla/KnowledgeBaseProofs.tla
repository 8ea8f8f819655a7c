------------------------ MODULE KnowledgeBaseProofs ------------------------
(***************************************************************************)
(* For all ids and texts, whatever Ollama and the disk do: vectors match   *)
(* the contents they stand for, and what callers were told is so.          *)
(***************************************************************************)
EXTENDS KnowledgeBase, TLAPS

DataTypes ==
  /\ dims \in [ALL_COLLECTIONS -> Embedders \cup {NoDim}]
  /\ entries \in [Ids -> KnowledgeEntry \cup {Unused, Gone}]

(* An id that was said to be deleted has been drawn and is drawn no more.  *)
NamesAreDrawn ==
  \A id \in Ids, c \in ALL_COLLECTIONS : <<id, c>> \in deleted => entries[id] # Unused

KnowledgeInv == DataTypes /\ VectorsMatch /\ TellsTheTruth /\ NamesAreDrawn

(* What is accepted is a vector of the text it was asked for.              *)
LEMMA AcceptedVector ==
  ASSUME NEW c \in ALL_COLLECTIONS, NEW text \in Strings,
         Accepts(c, _embed_texts(text))
  PROVE  /\ _embed_texts(text) \in Vector
         /\ _embed_texts(text).of = text
         /\ _embed_texts(text).by \in Embedders
         /\ dims[c] \in {NoDim, _embed_texts(text).by}
BY DEF Accepts, _embed_texts, Vector, Embedders

LEMMA EntriesAreRecords ==
  ASSUME NEW e \in KnowledgeEntry
  PROVE  e \notin {Unused, Gone} /\ e.collection \in ALL_COLLECTIONS
BY KnowledgeAssumption DEF KnowledgeEntry

LEMMA KnowledgeInvInit == Init => KnowledgeInv
BY DEF Init, KnowledgeInv, DataTypes, VectorsMatch, TellsTheTruth, NamesAreDrawn, IsEntry

LEMMA AddKeepsInv ==
  ASSUME KnowledgeInv,
         NEW c \in ALL_COLLECTIONS, NEW title \in Texts, NEW content \in Texts,
         add_entry(c, title, content)
  PROVE  KnowledgeInv'
<1> DEFINE vector == _embed_texts(content)
<1>1. PICK id \in Ids :
        /\ entries[id] = Unused
        /\ IF Accepts(c, vector)
             THEN /\ entries' = [entries EXCEPT ![id] = Entry(c, title, content)]
                  /\ SetDimension(c, vector)
                  /\ added' = added \cup {<<id, c>>}
             ELSE UNCHANGED <<entries, dims, added>>
        /\ UNCHANGED deleted
  BY DEF add_entry
<1>2. CASE ~Accepts(c, vector)
  BY <1>1, <1>2
     DEF KnowledgeInv, DataTypes, VectorsMatch, TellsTheTruth, NamesAreDrawn, IsEntry, IsIn
<1>3. CASE Accepts(c, vector)
  <2> DEFINE new == Entry(c, title, content)
  <2>1. /\ vector \in Vector /\ vector.of = content
        /\ vector.by \in Embedders /\ dims[c] \in {NoDim, vector.by}
    BY <1>3, AcceptedVector DEF Strings
  <2>2. /\ new \in KnowledgeEntry /\ new \notin {Unused, Gone}
        /\ new.collection = c /\ new.content = content /\ new.vector = vector
    BY <2>1, EntriesAreRecords DEF Entry, KnowledgeEntry, Strings
  <2>3. /\ entries' = [entries EXCEPT ![id] = new]
        /\ dims' = [dims EXCEPT ![c] = vector.by]
        /\ added' = added \cup {<<id, c>>} /\ deleted' = deleted
    BY <1>1, <1>3 DEF SetDimension
  <2> HIDE DEF new, vector
  <2>4. DataTypes'
    BY <2>1, <2>2, <2>3 DEF KnowledgeInv, DataTypes
  <2>5. VectorsMatch'
    <3> SUFFICES ASSUME NEW i \in Ids, IsEntry(i)'
                 PROVE  /\ entries'[i].vector.of = entries'[i].content
                        /\ entries'[i].vector.by = dims'[entries'[i].collection]
      BY DEF VectorsMatch
    <3>1. CASE i = id
      BY <2>1, <2>2, <2>3, <3>1 DEF KnowledgeInv, DataTypes
    <3>2. CASE i # id
      <4>1. entries'[i] = entries[i] /\ IsEntry(i)
        BY <2>3, <3>2 DEF KnowledgeInv, DataTypes, IsEntry
      <4>2. entries[i].collection \in ALL_COLLECTIONS
        BY <4>1, EntriesAreRecords DEF KnowledgeInv, DataTypes, IsEntry
      <4>3. entries[i].vector.by \in Embedders
        BY <4>1 DEF KnowledgeInv, DataTypes, IsEntry, KnowledgeEntry, Vector
      <4>4. dims[entries[i].collection] = dims'[entries[i].collection]
        BY <2>1, <2>3, <4>1, <4>2, <4>3, KnowledgeAssumption
           DEF KnowledgeInv, DataTypes, VectorsMatch
      <4>5. QED
        BY <4>1, <4>4 DEF KnowledgeInv, VectorsMatch
    <3>3. QED
      BY <3>1, <3>2
  <2>6. TellsTheTruth' /\ NamesAreDrawn'
    <3> SUFFICES ASSUME NEW i \in Ids, NEW d \in ALL_COLLECTIONS
                 PROVE  /\ <<i, d>> \in added' => IsIn(i, {d})'
                        /\ <<i, d>> \in deleted' => ~IsIn(i, {d})' /\ entries'[i] # Unused
      BY DEF TellsTheTruth, NamesAreDrawn
    <3>1. CASE i = id
      <4>1. <<i, d>> \notin deleted /\ <<i, d>> \notin added
        BY <1>1, <3>1 DEF KnowledgeInv, TellsTheTruth, NamesAreDrawn, IsIn, IsEntry
      <4>2. entries'[i] = new
        BY <2>3, <3>1 DEF KnowledgeInv, DataTypes
      <4>3. QED
        BY <2>2, <2>3, <3>1, <4>1, <4>2 DEF IsIn, IsEntry
    <3>2. CASE i # id
      <4>1. entries'[i] = entries[i]
        BY <2>3, <3>2 DEF KnowledgeInv, DataTypes
      <4>2. QED
        BY <2>3, <3>2, <4>1 DEF KnowledgeInv, TellsTheTruth, NamesAreDrawn, IsIn, IsEntry
    <3>3. QED
      BY <3>1, <3>2
  <2>7. QED
    BY <2>4, <2>5, <2>6 DEF KnowledgeInv
<1>4. QED
  BY <1>2, <1>3

LEMMA UpdateKeepsInv ==
  ASSUME KnowledgeInv,
         NEW id \in Ids, NEW c \in ALL_COLLECTIONS,
         NEW content \in Strings, NEW title \in Strings,
         update_entry(id, c, content, title), UNCHANGED told
  PROVE  KnowledgeInv'
<1> DEFINE vector == _embed_texts(content)
           new == Entry(c, title, content)
<1>1. CASE ~Accepts(c, vector)
  BY <1>1
     DEF update_entry, told, KnowledgeInv, DataTypes, VectorsMatch, TellsTheTruth,
         NamesAreDrawn, IsEntry, IsIn
<1>2. CASE Accepts(c, vector)
  <2>1. /\ vector \in Vector /\ vector.of = content
        /\ vector.by \in Embedders /\ dims[c] \in {NoDim, vector.by}
    BY <1>2, AcceptedVector
  <2>2. /\ entries' = IF IsIn(id, {c})
                        THEN [entries EXCEPT ![id] = new]
                        ELSE entries
        /\ dims' = [dims EXCEPT ![c] = vector.by]
        /\ added' = added /\ deleted' = deleted
    BY <1>2 DEF update_entry, SetDimension, told
  <2>0. /\ new \in KnowledgeEntry
        /\ new.collection = c /\ new.content = content /\ new.vector = vector
    BY <2>1 DEF Entry, KnowledgeEntry
  <2> HIDE DEF vector, new
  <2>3. ASSUME IsIn(id, {c})
        PROVE  /\ entries[id] \in KnowledgeEntry /\ entries[id].collection = c
               /\ entries'[id] = new
    BY <2>2, <2>3 DEF IsIn, IsEntry, KnowledgeInv, DataTypes
  <2>4. ASSUME NEW i \in Ids, ~(i = id /\ IsIn(id, {c}))
        PROVE  entries'[i] = entries[i]
    BY <2>2, <2>4 DEF KnowledgeInv, DataTypes
  <2>5. DataTypes'
    <3>1. CASE IsIn(id, {c})
      BY <2>0, <2>1, <2>2, <3>1 DEF KnowledgeInv, DataTypes
    <3>2. CASE ~IsIn(id, {c})
      BY <2>1, <2>2, <3>2 DEF KnowledgeInv, DataTypes
    <3>3. QED
      BY <3>1, <3>2
  <2>6. VectorsMatch'
    <3> SUFFICES ASSUME NEW i \in Ids, IsEntry(i)'
                 PROVE  /\ entries'[i].vector.of = entries'[i].content
                        /\ entries'[i].vector.by = dims'[entries'[i].collection]
      BY DEF VectorsMatch
    <3>1. CASE i = id /\ IsIn(id, {c})
      BY <2>0, <2>1, <2>2, <2>3, <3>1 DEF KnowledgeInv, DataTypes
    <3>2. CASE ~(i = id /\ IsIn(id, {c}))
      <4>1. entries'[i] = entries[i] /\ IsEntry(i)
        BY <2>4, <3>2 DEF IsEntry
      <4>2. entries[i].collection \in ALL_COLLECTIONS
        BY <4>1, EntriesAreRecords DEF KnowledgeInv, DataTypes, IsEntry
      <4>3. entries[i].vector.by \in Embedders
        BY <4>1 DEF KnowledgeInv, DataTypes, IsEntry, KnowledgeEntry, Vector
      <4>4. dims[entries[i].collection] = dims'[entries[i].collection]
        BY <2>1, <2>2, <4>1, <4>2, <4>3, KnowledgeAssumption
           DEF KnowledgeInv, DataTypes, VectorsMatch
      <4>5. QED
        BY <4>1, <4>4 DEF KnowledgeInv, VectorsMatch
    <3>3. QED
      BY <3>1, <3>2
  <2>7. TellsTheTruth' /\ NamesAreDrawn'
    <3>1. ASSUME NEW i \in Ids, NEW d \in ALL_COLLECTIONS
          PROVE  /\ IsIn(i, {d})' <=> IsIn(i, {d})
                 /\ entries'[i] = Unused <=> entries[i] = Unused
      <4>1. CASE i = id /\ IsIn(id, {c})
        BY <2>0, <2>3, <4>1, EntriesAreRecords DEF IsIn, IsEntry
      <4>2. CASE ~(i = id /\ IsIn(id, {c}))
        BY <2>4, <4>2 DEF IsIn, IsEntry
      <4>3. QED
        BY <4>1, <4>2
    <3>2. QED
      BY <2>2, <3>1 DEF KnowledgeInv, TellsTheTruth, NamesAreDrawn
  <2>8. QED
    BY <2>5, <2>6, <2>7 DEF KnowledgeInv
<1>3. QED
  BY <1>1, <1>2

LEMMA DeleteKeepsInv ==
  ASSUME KnowledgeInv,
         NEW id \in Ids, NEW c \in ALL_COLLECTIONS,
         entries[id] # Unused,
         delete_entry(id, c),
         added' \in {added, added \ {<<id, c>>}},
         IsIn(id, {c}) /\ diskOK => <<id, c>> \notin added',
         deleted' \in {deleted, deleted \cup {<<id, c>>}},
         deleted' # deleted => diskOK
  PROVE  KnowledgeInv'
<1>1. entries' = IF diskOK /\ IsIn(id, {c}) THEN [entries EXCEPT ![id] = Gone]
                 ELSE entries
  BY DEF delete_entry
<1>2. dims' = dims
  BY DEF delete_entry
<1>3. DataTypes'
  BY <1>1, <1>2 DEF KnowledgeInv, DataTypes
<1>4. ASSUME NEW i \in Ids
      PROVE  \/ entries'[i] = entries[i] /\ ~(i = id /\ diskOK /\ IsIn(id, {c}))
             \/ i = id /\ diskOK /\ IsIn(id, {c}) /\ entries'[i] = Gone
  BY <1>1 DEF KnowledgeInv, DataTypes
<1>5. VectorsMatch'
  BY <1>2, <1>4 DEF KnowledgeInv, VectorsMatch, IsEntry
<1>6. TellsTheTruth' /\ NamesAreDrawn'
  <2> SUFFICES ASSUME NEW i \in Ids, NEW d \in ALL_COLLECTIONS
               PROVE  /\ <<i, d>> \in added' => IsIn(i, {d})'
                      /\ <<i, d>> \in deleted' => ~IsIn(i, {d})' /\ entries'[i] # Unused
    BY DEF TellsTheTruth, NamesAreDrawn
  <2>1. CASE entries'[i] = entries[i] /\ ~(i = id /\ diskOK /\ IsIn(id, {c}))
    <3>1. IsIn(i, {d})' <=> IsIn(i, {d})
      BY <2>1 DEF IsIn, IsEntry
    <3>2. <<i, d>> \in deleted' \ deleted => ~IsIn(i, {d}) /\ entries[i] # Unused
      BY <2>1
    <3>3. QED
      BY <2>1, <3>1, <3>2 DEF KnowledgeInv, TellsTheTruth, NamesAreDrawn
  <2>2. CASE i = id /\ diskOK /\ IsIn(id, {c}) /\ entries'[i] = Gone
    <3>1. ~IsIn(i, {d})' /\ entries'[i] # Unused
      BY <2>2, KnowledgeAssumption DEF IsIn, IsEntry
    <3>2. <<i, d>> \notin added'
      BY <2>2 DEF KnowledgeInv, TellsTheTruth, IsIn
    <3>3. QED
      BY <3>1, <3>2
  <2>3. QED
    BY <1>4, <2>1, <2>2
<1>7. QED
  BY <1>3, <1>5, <1>6 DEF KnowledgeInv

(* Readers and the world change neither entries nor what was told.         *)
LEMMA OthersKeepInv ==
  ASSUME KnowledgeInv, UNCHANGED <<dims, entries, told>>
  PROVE  KnowledgeInv'
BY DEF KnowledgeInv, DataTypes, VectorsMatch, TellsTheTruth, NamesAreDrawn, IsIn, IsEntry,
       told

LEMMA KnowledgeInvNext == KnowledgeInv /\ [Next]_vars => KnowledgeInv'
<1> SUFFICES ASSUME KnowledgeInv, [Next]_vars
             PROVE  KnowledgeInv'
  OBVIOUS
<1>1. ASSUME NEW c \in ALL_COLLECTIONS, AddTo(c)
      PROVE  KnowledgeInv'
  BY <1>1, AddKeepsInv DEF AddTo
<1>2. CASE kb_add_runbook \/ kb_add_incident_doc \/ kb_add_config_snippet
             \/ kb_add_sop \/ kb_add
  BY <1>1, <1>2
     DEF kb_add_runbook, kb_add_incident_doc, kb_add_config_snippet, kb_add_sop, kb_add,
         ALL_COLLECTIONS
<1>3. CASE kb_update_entry \/ kb_update
  BY <1>3, UpdateKeepsInv DEF kb_update_entry, kb_update, Drawn
<1>4. CASE kb_delete_entry
  <2>1. PICK id \in Drawn, c \in ALL_COLLECTIONS :
          /\ delete_entry(id, c)
          /\ \/ /\ diskOK
                /\ added' = added \ {<<id, c>>} /\ deleted' = deleted \cup {<<id, c>>}
             \/ ~diskOK /\ UNCHANGED told
    BY <1>4, Zenon DEF kb_delete_entry
  <2>2. QED
    BY <2>1, DeleteKeepsInv DEF Drawn, told
<1>5. CASE kb_delete
  <2>1. PICK id \in Drawn, c \in ALL_COLLECTIONS :
          delete_entry(id, c) /\ added' = added \ {<<id, c>>} /\ deleted' = deleted
    BY <1>5 DEF kb_delete
  <2>2. QED
    BY <2>1, DeleteKeepsInv DEF Drawn
<1>6. CASE kb_search \/ kb_get_rag_context \/ kb_list_entries \/ kb_get_entry \/ kb_stats
  BY <1>6, OthersKeepInv
     DEF kb_search, kb_get_rag_context, kb_list_entries, kb_get_entry, kb_stats, Reads
<1>7. CASE WorldChanges
  BY <1>7, OthersKeepInv DEF WorldChanges
<1>8. CASE UNCHANGED vars
  BY <1>8, OthersKeepInv DEF vars, told
<1>9. QED
  BY <1>2, <1>3, <1>4, <1>5, <1>6, <1>7, <1>8 DEF Next

(* Every entry is found by a vector of its content and of its collection's *)
(* kind, through all outages of Ollama.                                    *)
THEOREM KnowledgeVectorsMatch == Spec => []VectorsMatch
<1>1. KnowledgeInv => VectorsMatch
  BY DEF KnowledgeInv
<1>2. QED
  BY <1>1, KnowledgeInvInit, KnowledgeInvNext, PTL DEF Spec

(* What callers were told of additions and deletions is so.                *)
THEOREM CallersAreToldTheTruth == Spec => []TellsTheTruth
<1>1. KnowledgeInv => TellsTheTruth
  BY DEF KnowledgeInv
<1>2. QED
  BY <1>1, KnowledgeInvInit, KnowledgeInvNext, PTL DEF Spec
-----------------------------------------------------------------------------
LEMMA RepliesWithoutResults ==
  ASSUME reply'.kind # "found"
  PROVE  ReadsAreComplete'
BY DEF ReadsAreComplete

LEMMA FoundIsComplete ==
  ASSUME NEW scope, NEW only, reply' = Found(scope, only), UNCHANGED entries
  PROVE  ReadsAreComplete'
BY DEF ReadsAreComplete, Found, Finds, IsIn, IsEntry

LEMMA NothingOnABrokenDisk ==
  ASSUME ~diskOK, UNCHANGED diskOK
  PROVE  ReadsAreComplete'
BY DEF ReadsAreComplete

LEMMA ReadersAreComplete ==
  ASSUME UNCHANGED <<entries, diskOK>>,
         \/ \E scope \in Scopes : search_entries(scope)
         \/ \E c \in ALL_COLLECTIONS : list_entries(c)
         \/ \E id \in Ids, c \in ALL_COLLECTIONS : get_entry(id, c)
         \/ get_stats
  PROVE  ReadsAreComplete'
<1>1. CASE ~diskOK
  BY <1>1, NothingOnABrokenDisk
<1>2. CASE diskOK
  <2>1. ASSUME NEW scope \in Scopes, search_entries(scope)
        PROVE  ReadsAreComplete'
    <3>1. reply' = Found(scope, Ids) \/ reply' = Says("failed")
      BY <1>2, <2>1 DEF search_entries
    <3>2. QED
      BY <3>1, FoundIsComplete, RepliesWithoutResults DEF Says
  <2>2. ASSUME NEW c \in ALL_COLLECTIONS, list_entries(c)
        PROVE  ReadsAreComplete'
    BY <1>2, <2>2, FoundIsComplete DEF list_entries
  <2>3. ASSUME NEW id \in Ids, NEW c \in ALL_COLLECTIONS, get_entry(id, c)
        PROVE  ReadsAreComplete'
    BY <1>2, <2>3, FoundIsComplete DEF get_entry
  <2>4. CASE get_stats
    BY <1>2, <2>4, FoundIsComplete DEF get_stats
  <2>5. QED
    BY <2>1, <2>2, <2>3, <2>4
<1>3. QED
  BY <1>1, <1>2

(* A reader that answers while the disk is well has seen all entries of the*)
(* collections it was asked about: an outage of Ollama makes it fail, not  *)
(* leave one out.                                                          *)
THEOREM ReadersLeaveNothingOut == Spec => []ReadsAreComplete
<1>1. Init => ReadsAreComplete
  BY DEF Init, ReadsAreComplete, Says
<1>2. ReadsAreComplete /\ [Next]_vars => ReadsAreComplete'
  <2> SUFFICES ASSUME ReadsAreComplete, [Next]_vars
               PROVE  ReadsAreComplete'
    OBVIOUS
  <2>1. CASE kb_search \/ kb_get_rag_context \/ kb_list_entries \/ kb_get_entry \/ kb_stats
    BY <2>1, ReadersAreComplete
       DEF kb_search, kb_get_rag_context, kb_list_entries, kb_get_entry, kb_stats, Reads,
           build_rag_context, world
  <2>2. CASE kb_add_runbook \/ kb_add_incident_doc \/ kb_add_config_snippet
               \/ kb_add_sop \/ kb_add
    <3>1. ASSUME NEW c, AddTo(c)
          PROVE  reply'.kind # "found"
      BY <3>1 DEF AddTo, add_entry, Says
    <3>2. QED
      BY <2>2, <3>1, RepliesWithoutResults
         DEF kb_add_runbook, kb_add_incident_doc, kb_add_config_snippet, kb_add_sop, kb_add
  <2>3. CASE kb_update_entry \/ kb_update
    BY <2>3, RepliesWithoutResults DEF kb_update_entry, kb_update, Says
  <2>4. CASE kb_delete_entry \/ kb_delete
    BY <2>4, RepliesWithoutResults DEF kb_delete_entry, kb_delete, Says
  <2>5. CASE WorldChanges
    BY <2>5, RepliesWithoutResults DEF WorldChanges, Says
  <2>6. CASE UNCHANGED vars
    BY <2>6 DEF vars, world, ReadsAreComplete, IsIn, IsEntry
  <2>7. QED
    BY <2>1, <2>2, <2>3, <2>4, <2>5, <2>6 DEF Next
<1>3. QED
  BY <1>1, <1>2, PTL DEF Spec
-----------------------------------------------------------------------------
(* The rest of the types: what callers were told and how they are answered.*)
TalkTypes ==
  /\ ollamaUp \in BOOLEAN /\ diskOK \in BOOLEAN
  /\ added \subseteq Ids \X ALL_COLLECTIONS /\ deleted \subseteq Ids \X ALL_COLLECTIONS
  /\ reply \in Reply

LEMMA AnswersAreReplies ==
  /\ \A kind \in {"none", "ok", "failed"} : Says(kind) \in Reply
  /\ \A scope \in SUBSET ALL_COLLECTIONS, only \in SUBSET Ids :
       Found(scope, only) \in Reply /\ Nothing(scope, only) \in Reply
BY DEF Says, Reply, Found, Nothing, Finds

LEMMA ReadersReply ==
  ASSUME \/ \E scope \in Scopes : search_entries(scope)
         \/ \E c \in ALL_COLLECTIONS : list_entries(c)
         \/ \E id \in Ids, c \in ALL_COLLECTIONS : get_entry(id, c)
         \/ get_stats
  PROVE  reply' \in Reply
<1>1. Scopes \subseteq SUBSET ALL_COLLECTIONS
  BY DEF Scopes
<1>2. ASSUME NEW scope \in Scopes, search_entries(scope)
      PROVE  reply' \in Reply
  <2>1. reply' \in {Found(scope, Ids), Nothing(scope, Ids), Says("failed")}
    BY <1>2 DEF search_entries
  <2>2. QED
    BY <1>1, <2>1, AnswersAreReplies
<1>3. ASSUME NEW c \in ALL_COLLECTIONS, list_entries(c)
      PROVE  reply' \in Reply
  BY <1>3, AnswersAreReplies DEF list_entries
<1>4. ASSUME NEW id \in Ids, NEW c \in ALL_COLLECTIONS, get_entry(id, c)
      PROVE  reply' \in Reply
  BY <1>4, AnswersAreReplies DEF get_entry
<1>5. CASE get_stats
  BY <1>5, AnswersAreReplies DEF get_stats
<1>6. QED
  BY <1>2, <1>3, <1>4, <1>5

LEMMA AddKeepsTalk ==
  ASSUME TalkTypes, NEW c \in ALL_COLLECTIONS, AddTo(c)
  PROVE  TalkTypes'
<1>1. PICK title \in Texts, content \in Texts : add_entry(c, title, content)
  BY DEF AddTo
<1>2. PICK id \in Ids :
        /\ \/ added' = added \cup {<<id, c>>} /\ reply' = Says("ok")
           \/ added' = added /\ reply' = Says("failed")
        /\ UNCHANGED <<deleted, world>>
  BY <1>1 DEF add_entry
<1>3. QED
  BY <1>2, AnswersAreReplies DEF TalkTypes, world

LEMMA TalkTypesNext == TalkTypes /\ [Next]_vars => TalkTypes'
<1> SUFFICES ASSUME TalkTypes, [Next]_vars
             PROVE  TalkTypes'
  OBVIOUS
<1>1. CASE kb_search \/ kb_get_rag_context \/ kb_list_entries \/ kb_get_entry \/ kb_stats
  <2>1. UNCHANGED <<told, world>>
    BY <1>1 DEF kb_search, kb_get_rag_context, kb_list_entries, kb_get_entry, kb_stats, Reads
  <2>2. reply' \in Reply
    BY <1>1, ReadersReply
       DEF kb_search, kb_get_rag_context, kb_list_entries, kb_get_entry, kb_stats, Reads,
           build_rag_context
  <2>3. QED
    BY <2>1, <2>2 DEF TalkTypes, told, world
<1>2. CASE kb_add_runbook \/ kb_add_incident_doc \/ kb_add_config_snippet
             \/ kb_add_sop \/ kb_add
  BY <1>2, AddKeepsTalk
     DEF kb_add_runbook, kb_add_incident_doc, kb_add_config_snippet, kb_add_sop, kb_add,
         ALL_COLLECTIONS
<1>3. CASE kb_update_entry \/ kb_update
  BY <1>3, AnswersAreReplies DEF kb_update_entry, kb_update, TalkTypes, told, world
<1>4. CASE kb_delete_entry \/ kb_delete
  <2>1. PICK id \in Ids, c \in ALL_COLLECTIONS :
          /\ added' \in {added, added \ {<<id, c>>}}
          /\ deleted' \in {deleted, deleted \cup {<<id, c>>}}
          /\ reply' \in {Says("ok"), Says("failed")} /\ UNCHANGED world
    BY <1>4 DEF kb_delete_entry, kb_delete, Drawn, told
  <2>2. QED
    BY <2>1, AnswersAreReplies DEF TalkTypes, world
<1>5. CASE WorldChanges
  BY <1>5, AnswersAreReplies DEF WorldChanges, TalkTypes, told
<1>6. CASE UNCHANGED vars
  BY <1>6 DEF vars, TalkTypes
<1>7. QED
  BY <1>1, <1>2, <1>3, <1>4, <1>5, <1>6 DEF Next

(* Whatever is stored, answered and told is of its type: no collection ever*)
(* takes a vector that its embedder did not make.                          *)
THEOREM KnowledgeTypes == Spec => []TypeOK
<1>1. Init => TalkTypes
  BY AnswersAreReplies DEF Init, TalkTypes
<1>2. KnowledgeInv /\ TalkTypes => TypeOK
  BY DEF KnowledgeInv, DataTypes, TalkTypes, TypeOK
<1>3. QED
  BY <1>1, <1>2, KnowledgeInvInit, KnowledgeInvNext, TalkTypesNext, PTL DEF Spec
=============================================================================
