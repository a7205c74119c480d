----------------------------- MODULE MemoryStore -----------------------------
(***************************************************************************)
(* The memories, the learned training and the settings of one scope in     *)
(* memory/store.py, with the import of training/learned.py.  Every tool    *)
(* call opens a store of its own on the same file, and a SELECT holds      *)
(* nothing, so that other calls come between the statements of one.  No    *)
(* constraint of the tables forbids a second row.  One kind of training is *)
(* modelled; tags, citations and texts are left out.                       *)
(***************************************************************************)
EXTENDS FiniteSets, Naturals, Sequences

CONSTANTS
    MemoryCalls,
    Facts,         \* what a memory says
    Lessons,       \* names of training entries
    Files,         \* the sections of an imported file, by name
    MaxPerKind,    \* TRAINING_MAX_PER_KIND
    MaxMemoryClock \* bound: the last instant

ASSUME MemoryAssumption ==
    /\ Files \subseteq Seq(Lessons) \ {<<>>}
    /\ MaxPerKind \in Nat \ {0}
    /\ MaxMemoryClock \in Nat
    /\ "NONE" \notin Facts

VARIABLES
    memory,      \* memories: the row that each call has inserted, if it stands
    training,    \* training: <<call, name>> of each row, by the call that inserted it
    enabled,     \* memory_preferences.enabled of the scope
    memoryClock, \* now
    memCall,     \* where each call stands, and what it has read
    off,         \* history: the last that named it has disabled memory
    blurred,     \* history: a setting that nobody named was written over a newer one
    told,        \* history: the saves that began while memory was disabled
    paired,      \* history: pairs of calls that were underway at once on one table
    said,        \* history: the save that last answered for each fact
    answer       \* history: the call that last answered for each lesson

memoryVars == <<memory, training, enabled, memoryClock, memCall, off, blurred, told,
                paired, said, answer>>
tables == <<memory, training, enabled>>
settingsWords == <<off, blurred, told>>

-----------------------------------------------------------------------------

NoMemory == [fact |-> "NONE", until |-> 0]
Never == MaxMemoryClock + 2

Unused == [at |-> "idle", table |-> "none"]
Done == [at |-> "done", table |-> "none"]
NoWord == [by |-> "NONE", says |-> "nothing"]

MemoryInit ==
    /\ memory = [c \in MemoryCalls |-> NoMemory]
    /\ training = {}
    /\ enabled = TRUE
    /\ memoryClock = 0
    /\ memCall = [c \in MemoryCalls |-> Unused]
    /\ off = FALSE
    /\ blurred = FALSE
    /\ told = {}
    /\ paired = {}
    /\ said = [f \in Facts |-> NoWord]
    /\ answer = [n \in Lessons |-> NoWord]

Engaged(table) == {c \in MemoryCalls : memCall[c].table = table}

(* The first statement of a call, or its only one.                         *)
BeginCall(c, table) ==
    /\ memCall[c] = Unused
    /\ paired' = paired \cup {{c, d} : d \in Engaged(table)}

Goes(c, to) == memCall' = [memCall EXCEPT ![c] = to]

-----------------------------------------------------------------------------

Alike(fact) == {d \in MemoryCalls : memory[d].fact = fact}

(* save_memory: without expires_at until is Never.                         *)
SaveMemory(c) ==
    /\ BeginCall(c, "memories")
    /\ \E fact \in Facts, until \in {memoryClock + 1, Never} :
          Goes(c, IF enabled
                  THEN [at |-> "look", table |-> "memories", fact |-> fact, until |-> until]
                  ELSE Done)
    /\ told' = IF off THEN told \cup {c} ELSE told
    /\ UNCHANGED <<tables, memoryClock, off, blurred, said, answer>>

LookMemory(c) ==
    /\ memCall[c].at = "look"
    /\ \/ /\ Alike(memCall[c].fact) = {}
          /\ Goes(c, [memCall[c] EXCEPT !.at = "insert"])
       \/ \E d \in Alike(memCall[c].fact) :
             Goes(c, [at |-> "renew", table |-> "memories", fact |-> memCall[c].fact,
                      until |-> memCall[c].until, id |-> d, found |-> memory[d].until])
    /\ UNCHANGED <<tables, memoryClock, settingsWords, paired, said, answer>>

Assures(c, kept) ==
    said' = [said EXCEPT ![memCall[c].fact] =
                [by |-> c, says |-> "saved", until |-> memCall[c].until, kept |-> kept]]

InsertMemory(c) ==
    /\ memCall[c].at = "insert" /\ memCall[c].table = "memories"
    /\ memory' = [memory EXCEPT ![c] = [fact |-> memCall[c].fact, until |-> memCall[c].until]]
    /\ Assures(c, FALSE)
    /\ Goes(c, Done)
    /\ UNCHANGED <<training, enabled, memoryClock, settingsWords, paired, answer>>

(* Without expires_at the row keeps its own, even one that has passed.     *)
RenewedUntil(asked, found) == IF asked = Never THEN found ELSE asked

RenewMemory(c) ==
    /\ memCall[c].at = "renew"
    /\ LET id == memCall[c].id
       IN  memory' = IF memory[id] = NoMemory THEN memory
                     ELSE [memory EXCEPT ![id].until =
                              RenewedUntil(memCall[c].until, memCall[c].found)]
    /\ Assures(c, memCall[c].until = Never /\ memCall[c].found # Never)
    /\ Goes(c, Done)
    /\ UNCHANGED <<training, enabled, memoryClock, settingsWords, paired, answer>>

(* update_memory writes back what it has read of the row and was not given. *)
ReadMemory(c) ==
    /\ BeginCall(c, "memories")
    /\ \E id \in MemoryCalls, until \in {memoryClock + 1, Never} :
          /\ memory[id] # NoMemory
          /\ \E fact \in Facts :
                Goes(c, [at |-> "rewrite", table |-> "memories", id |-> id, fact |-> fact,
                         until |-> RenewedUntil(until, memory[id].until)])
    /\ UNCHANGED <<tables, memoryClock, settingsWords, said, answer>>

RewriteMemory(c) ==
    /\ memCall[c].at = "rewrite"
    /\ LET id == memCall[c].id
       IN  IF memory[id] = NoMemory THEN UNCHANGED <<memory, said>>
           ELSE /\ memory' = [memory EXCEPT ![id] = [fact |-> memCall[c].fact,
                                                    until |-> memCall[c].until]]
                /\ said' = [said EXCEPT ![memory[id].fact] = NoWord]
    /\ Goes(c, Done)
    /\ UNCHANGED <<training, enabled, memoryClock, settingsWords, paired, answer>>

(* remove_memory and reset_memories, of one row and of all.                *)
RemoveMemories(c) ==
    /\ BeginCall(c, "memories")
    /\ \E gone \in {{d} : d \in MemoryCalls} \cup {MemoryCalls} :
          /\ \E d \in gone : memory[d] # NoMemory
          /\ memory' = [d \in MemoryCalls |-> IF d \in gone THEN NoMemory ELSE memory[d]]
          /\ said' = [f \in Facts |-> IF Alike(f) \cap gone = {} THEN said[f] ELSE NoWord]
    /\ Goes(c, Done)
    /\ UNCHANGED <<training, enabled, memoryClock, settingsWords, answer>>

-----------------------------------------------------------------------------

(* configure_memory reads the settings, of which it may be told to change  *)
(* any, and writes all of them.                                            *)
ReadSettings(c) ==
    /\ BeginCall(c, "settings")
    /\ \E asked \in {"unset", "on", "off"} :
          Goes(c, [at |-> "configure", table |-> "settings", asked |-> asked,
                   current |-> enabled])
    /\ UNCHANGED <<tables, memoryClock, settingsWords, said, answer>>

(* Variant: what is not named is as by default.                            *)
NextEnabledByDefault(asked, current) == asked # "off"

NextEnabled(asked, current) == IF asked = "unset" THEN current ELSE asked = "on"

WriteSettings(c) ==
    /\ memCall[c].at = "configure"
    /\ LET asked == memCall[c].asked
           current == memCall[c].current
       IN  /\ enabled' = NextEnabled(asked, current)
           /\ off' = IF asked = "unset" THEN off ELSE asked = "off"
           /\ blurred' = (blurred \/ (asked = "unset" /\ current # enabled))
    /\ Goes(c, Done)
    /\ UNCHANGED <<memory, training, memoryClock, told, paired, said, answer>>

-----------------------------------------------------------------------------

Named(n) == {r \in training : r[2] = n}

(* Variant: one more than the limit.                                       *)
HasRoomForOneMore == Cardinality(training) <= MaxPerKind

HasRoom == Cardinality(training) < MaxPerKind

(* The SELECT by name in save_named_training, of the first of the names.   *)
Looks(c, names) ==
    \/ /\ Named(Head(names)) = {}
       /\ Goes(c, [at |-> "count", table |-> "training", names |-> names])
    \/ /\ Named(Head(names)) # {}
       /\ Goes(c, [at |-> "update", table |-> "training", names |-> names])

(* What comes after an entry: in an import, the next one.                  *)
Onward(c) ==
    Goes(c, IF Len(memCall[c].names) = 1 THEN Done
            ELSE [at |-> "seek", table |-> "training", names |-> Tail(memCall[c].names)])

Replies(c, n, says) == answer' = [answer EXCEPT ![n] = [by |-> c, says |-> says]]

SaveEntry(c) ==
    /\ BeginCall(c, "training")
    /\ \E n \in Lessons : Looks(c, <<n>>)
    /\ UNCHANGED <<tables, memoryClock, settingsWords, said, answer>>

(* import_markdown takes as many sections as there is room for.            *)
ImportMarkdown(c) ==
    /\ BeginCall(c, "training")
    /\ \E file \in Files :
          LET room == MaxPerKind - Cardinality(training)
              some == SubSeq(file, 1, IF Len(file) < room THEN Len(file) ELSE room)
          IN  room > 0 /\ Goes(c, [at |-> "seek", table |-> "training", names |-> some])
    /\ UNCHANGED <<tables, memoryClock, settingsWords, said, answer>>

SeekEntry(c) ==
    /\ memCall[c].at = "seek"
    /\ Looks(c, memCall[c].names)
    /\ UNCHANGED <<tables, memoryClock, settingsWords, paired, said, answer>>

(* The row may be gone: the answer is "updated" all the same.              *)
UpdateEntry(c) ==
    /\ memCall[c].at = "update"
    /\ Replies(c, Head(memCall[c].names), "there")
    /\ Onward(c)
    /\ UNCHANGED <<tables, memoryClock, settingsWords, paired, said>>

CountEntries(c) ==
    /\ memCall[c].at = "count"
    /\ IF HasRoom THEN Goes(c, [memCall[c] EXCEPT !.at = "insert"]) ELSE Onward(c)
    /\ UNCHANGED <<tables, memoryClock, settingsWords, paired, said, answer>>

InsertEntry(c) ==
    /\ memCall[c].at = "insert" /\ memCall[c].table = "training"
    /\ LET n == Head(memCall[c].names)
       IN  training' = training \cup {<<c, n>>} /\ Replies(c, n, "there")
    /\ Onward(c)
    /\ UNCHANGED <<memory, enabled, memoryClock, settingsWords, paired, said>>

(* A save that raises: an import goes on to the next section.              *)
SkipEntry(c) ==
    /\ memCall[c].at \in {"seek", "update", "count", "insert"}
    /\ memCall[c].table = "training"
    /\ Onward(c)
    /\ UNCHANGED <<tables, memoryClock, settingsWords, paired, said, answer>>

(* remove_named_training: the first of the rows that bear the name.        *)
FindEntry(c) ==
    /\ BeginCall(c, "training")
    /\ \E n \in Lessons :
          \/ /\ Named(n) = {}
             /\ Replies(c, n, "gone")
             /\ Goes(c, Done)
          \/ /\ UNCHANGED answer
             /\ \E r \in Named(n) : Goes(c, [at |-> "delete", table |-> "training", id |-> r])
    /\ UNCHANGED <<tables, memoryClock, settingsWords, said>>

DeleteEntry(c) ==
    /\ memCall[c].at = "delete"
    /\ training' = training \ {memCall[c].id}
    /\ Replies(c, memCall[c].id[2], "gone")
    /\ Goes(c, Done)
    /\ UNCHANGED <<memory, enabled, memoryClock, settingsWords, paired, said>>

-----------------------------------------------------------------------------

(* A statement raises, or the process dies.                                *)
Breaks(c) ==
    /\ memCall[c].table # "none"
    /\ Goes(c, Done)
    /\ UNCHANGED <<tables, memoryClock, settingsWords, paired, said, answer>>

MemoryTick ==
    /\ memoryClock < MaxMemoryClock
    /\ memoryClock' = memoryClock + 1
    /\ UNCHANGED <<tables, memCall, settingsWords, paired, said, answer>>

MemoryNext ==
    \/ \E c \in MemoryCalls :
          \/ SaveMemory(c) \/ LookMemory(c) \/ InsertMemory(c) \/ RenewMemory(c)
          \/ ReadMemory(c) \/ RewriteMemory(c) \/ RemoveMemories(c)
          \/ ReadSettings(c) \/ WriteSettings(c)
          \/ SaveEntry(c) \/ ImportMarkdown(c) \/ SeekEntry(c) \/ UpdateEntry(c)
          \/ CountEntries(c) \/ InsertEntry(c) \/ SkipEntry(c)
          \/ FindEntry(c) \/ DeleteEntry(c) \/ Breaks(c)
    \/ MemoryTick

MemorySpec == MemoryInit /\ [][MemoryNext]_memoryVars

-----------------------------------------------------------------------------

Overlapped(c) == \E d \in MemoryCalls : {c, d} \in paired /\ c # d

(* What a save answered for is listed until a call takes it away or its    *)
(* time has come, unless the save ran beside another call, or took the     *)
(* expiry of the row it found (save_memory, list_memories).                *)
SavedIsListed ==
    \A f \in Facts :
        said[f] # NoWord =>
            \/ said[f].until <= memoryClock
            \/ \E c \in Alike(f) : memory[c].until > memoryClock
            \/ said[f].kept
            \/ Overlapped(said[f].by)

(* A save that began when the last call to say so had disabled memory has  *)
(* no row, unless a configuration that did not name the setting wrote over *)
(* a newer one (configure_memory, save_memory).                            *)
DisabledStoresNothing == \A c \in told : memory[c] # NoMemory => blurred

MemoryAnswersHold == SavedIsListed /\ DisabledStoresNothing

(* A lesson answered as saved is there, unless the save ran beside another *)
(* call; one answered as removed is not, unless as a row whose own save    *)
(* did.  Two rows of one name come from saves that overlapped, and so do   *)
(* rows beyond the limit (save_named_training, remove_named_training,      *)
(* import_markdown).                                                       *)
TrainingAnswersHold ==
    /\ \A n \in Lessons :
          /\ answer[n].says = "there" => Named(n) # {} \/ Overlapped(answer[n].by)
          /\ answer[n].says = "gone" => \A r \in Named(n) : Overlapped(r[1])
          /\ \A r, s \in Named(n) : r # s => {r[1], s[1]} \in paired
    /\ Cardinality(training) > MaxPerKind =>
          \E r, s \in training : r # s /\ {r[1], s[1]} \in paired
=============================================================================
