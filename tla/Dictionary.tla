----------------------------- MODULE Dictionary -----------------------------
(* The dictionary of m64th: headers of words in data space, wordlists that *)
(* chain them, the search order, and the words that define words: ':'     *)
(* ':noname' ';' create does> value buffer: '[' ']' immediate, what        *)
(* the REPL does when one of them throws, and what C hosts call.           *)
(*                                                                         *)
(* An address is a number, 0 is NULL.  Data space is DataSpace bytes from  *)
(* DataStart; built-in words have the negative addresses that are the      *)
(* domain of BuiltIns.  A name is a sequence of character codes, <<>> for  *)
(* a :noname word.  mem maps the address of every header that has not been *)
(* written over, forgotten or not, to its fields.                          *)
EXTENDS Integers, FiniteSets, SequencesExt

CONSTANTS Names,           \* names the user defines
          Forth, User, Root,   \* built-in wordlists
          NewWids,         \* wordlists that 'wordlist' may return
          NoWid,           \* the NULL wordlist
          Dict,            \* last built-in word of each of them, 0 if none
          BuiltIns,        \* headers of the built-in words
          SearchOrderMax,  \* M64TH_SEARCHORDER_MAX
          Orders,          \* what the user gives to set-order
          DataSpace,       \* bytes in data space
          SZ, SZt,         \* bytes in a cell and in a token
          HeaderSize       \* WORD_OFF_XT

BuiltInWids == {Forth, User, Root}
Wids == BuiltInWids \cup NewWids
DataStart == SZ

ASSUME SizesAssumption == /\ SZ \in Nat \ {0} /\ SZt \in Nat \ {0} /\ HeaderSize \in Nat \ {0}
                          /\ DataSpace \in Nat /\ DataStart <= DataSpace
                          /\ SearchOrderMax \in Nat \ {0}
ASSUME NamesAssumption == Names \subseteq Seq(Nat) \ {<<>>}
ASSUME WidsAssumption == NoWid \notin Wids /\ Orders \subseteq Seq(Wids)

VARIABLES mem,       \* headers in memory
          here,      \* HERE
          latest,    \* m->lastw: last word defined or being defined
          state,     \* m->xt: the XT being compiled, 0 when interpreting
          sys,       \* the colon-sys on the data stack: flags of words being defined
          last,      \* wid->last of every wordlist, 0 if NULL
          wids,      \* wordlists allocated so far
          current,   \* m->compile_wid
          order      \* m->searchorder.addr: the last one is searched first

vars == <<mem, here, latest, state, sys, last, wids, current, order>>
heap == <<mem, here>>
compiler == <<latest, state, sys>>
search == <<wids, current, order>>

---------------------------------------------------------------------------
(* Characters and names *)

Lower(c) == IF c \in 65..90 THEN c + 32 ELSE c
CiEquals(a, b) == [i \in DOMAIN a |-> Lower(a[i])] = [i \in DOMAIN b |-> Lower(b[i])]
StringIsPrefixOf(prefix, str) ==
    Len(str) > Len(prefix) /\ CiEquals(prefix, SubSeq(str, 1, Len(prefix)))

\* memcmp on the common length, then the shorter one first
StringCompare(a, b) ==
    \/ IsStrictPrefix(a, b)
    \/ \E i \in DOMAIN a \cap DOMAIN b : a[i] < b[i] /\ SubSeq(a, 1, i - 1) = SubSeq(b, 1, i - 1)

CompletionsUnsorted(strings) == strings
StringsSort(strings) == SortSeq(strings, StringCompare)

\* drops a string equal to the one kept before it, the first one if it is empty
StringsUnique(strings) ==
    FoldLeft(LAMBDA kept, s : IF s = (IF kept = <<>> THEN <<>> ELSE Last(kept)) THEN kept ELSE Append(kept, s),
             <<>>, strings)

---------------------------------------------------------------------------
(* Headers *)

Aligned(addr) == SZ * ((addr + SZ - 1) \div SZ)
WordXt(nt) == nt + HeaderSize
DataAddr(nt) == Aligned(WordXt(nt) + SZt * mem[nt].code_n)
Start(nt) == nt - mem[nt].name_off
End(nt) == IF mem[nt].data_n = 0 THEN WordXt(nt) + SZt * mem[nt].code_n
                                 ELSE DataAddr(nt) + mem[nt].data_n
WordPrev(m, nt) == IF m[nt].prev_off = 0 THEN 0 ELSE nt - m[nt].prev_off

Header == [name : Seq(Nat), name_off : Nat, prev_off : Nat,
           flags : SUBSET {"create", "var", "value", "immediate"},
           code : {"tokens", "call noop", "call does", "data address"}, code_n : Nat, data_n : Nat]

(* The build lays the built-in words out below data space, each one after  *)
(* the word its header refers to, and none before the first.               *)
ASSUME HeadersAssumption == BuiltIns \in [DOMAIN BuiltIns -> Header]
ASSUME BuiltInsAssumption ==
    /\ \A nt \in DOMAIN BuiltIns :
          /\ nt \in Int /\ WordXt(nt) <= 0
          /\ WordPrev(BuiltIns, nt) \in {0} \cup {a \in DOMAIN BuiltIns : a < nt}
    /\ \E first \in DOMAIN BuiltIns \cup {0} : \A nt \in DOMAIN BuiltIns : first <= nt
    /\ Dict \in [BuiltInWids -> DOMAIN BuiltIns \cup {0}]

\* what is left of the headers m after the bytes from a up to b are written
Overwritten(m, a, b) == [nt \in {n \in DOMAIN m : WordXt(n) <= a \/ n - m[n].name_off >= b} |-> m[nt]]

(* name, : the name and the identifier as counted strings, aligned, then   *)
(* a header of zeroes.                                                     *)
NameComma(m, name) ==
    LET nt == Aligned(here + (IF name = <<>> THEN 0 ELSE 2 * (Len(name) + 1)))
        header == [name |-> name, name_off |-> IF name = <<>> THEN 0 ELSE nt - here, prev_off |-> 0,
                   flags |-> {}, code |-> "tokens", code_n |-> 0, data_n |-> 0]
        rest == Overwritten(m, here, WordXt(nt))
    IN  [nt |-> nt, mem |-> [a \in DOMAIN rest \cup {nt} |-> IF a = nt THEN header ELSE rest[a]]]

CodeShrunk(m) ==
    IF latest \in DOMAIN m /\ "create" \in m[latest].flags /\ m[latest].code = "call noop"
      THEN [m EXCEPT ![latest].code = "data address", ![latest].flags = {"var"}, ![latest].code_n = 2]
      ELSE m
(* [latest-optimize]: a word made by 'create' and left without 'does>' is  *)
(* a variable from now on.  Its code_n stays, or its data would move.      *)
LatestOptimized(m) ==
    IF latest \in DOMAIN m /\ "create" \in m[latest].flags /\ m[latest].code = "call noop"
      THEN [m EXCEPT ![latest].code = "data address", ![latest].flags = (@ \ {"create"}) \cup {"var"}]
      ELSE m

---------------------------------------------------------------------------
(* Wordlists *)

LastWord(wid) == CASE wid = NoWid -> 0
                   [] wid # NoWid /\ last[wid] # 0 -> last[wid]
                   [] OTHER -> IF wid \in BuiltInWids THEN Dict[wid] ELSE 0

AddedToLast(m, nt, wid) == [m EXCEPT ![nt].prev_off = IF last[wid] = 0 THEN 0 ELSE nt - last[wid]]
\* m6wordlist_add_word on the headers m
Added(m, nt, wid) == [m EXCEPT ![nt].prev_off = IF LastWord(wid) = 0 THEN 0 ELSE nt - LastWord(wid)]

\* the word at nt and those before it in its wordlist: WordsApart says that links end with NULL
Chain(m, nt) ==
    LET chain[a \in Int] ==
            IF a \notin DOMAIN m THEN <<>>
            ELSE <<a>> \o (IF WordPrev(m, a) < a THEN chain[WordPrev(m, a)] ELSE <<>>)
    IN  chain[nt]
NamesIn(m, words) == [i \in DOMAIN words |-> m[words[i]].name]

\* the words of a wordlist, newest first
Words(wid) == Chain(mem, LastWord(wid))
NamesOf(wid) == NamesIn(mem, Words(wid))

WordlistFind(wid, str) ==
    LET words == Words(wid)
        found == {i \in DOMAIN words : mem[words[i]].name # <<>> /\ CiEquals(str, mem[words[i]].name)}
    IN  IF found = {} THEN 0 ELSE words[Min(found)]

LeastPriority(str) ==
    LET found == {i \in DOMAIN order : WordlistFind(order[i], str) # 0}
    IN  IF found = {} THEN 0 ELSE WordlistFind(order[Min(found)], str)
(* string>name: the search order from its last wordlist to its first one *)
StringToName(str) ==
    LET found == {i \in DOMAIN order : WordlistFind(order[i], str) # 0}
    IN  IF found = {} THEN 0 ELSE WordlistFind(order[Max(found)], str)

(* What TAB offers for the word str: names in the search order that it begins *)
SearchOrderUnique == {order[i] : i \in DOMAIN order}
CompleteWord(str) ==
    LET offers(wid) == SelectSeq(NamesOf(wid), LAMBDA name : StringIsPrefixOf(str, name))
    IN  StringsUnique(StringsSort(FoldLeft(LAMBDA s, wid : s \o offers(wid), <<>>, SetToSeq(SearchOrderUnique))))

---------------------------------------------------------------------------
(* What a throw does: the REPL catches it and calls compiler-abort.        *)

AlwaysForgetsLatest ==
    /\ state' = 0
    /\ IF latest \in DOMAIN mem
         THEN here' = Start(latest) /\ sys' = (IF sys = <<>> THEN <<>> ELSE Front(sys))
         ELSE UNCHANGED <<here, sys>>
    /\ UNCHANGED <<mem, latest, last, search>>
CompilerAbort ==
    /\ state' = 0
    /\ IF state # 0 /\ latest \in DOMAIN mem
         THEN here' = Start(latest) /\ sys' = (IF sys = <<>> THEN <<>> ELSE Front(sys))
         ELSE UNCHANGED <<here, sys>>
    /\ UNCHANGED <<mem, latest, last, search>>

Fits(addr) == addr <= DataSpace   \* bound: the code never checks for the end of data space

(* (create): no nesting, name, optimize the previous latest, flags *)
Create(name, flags) ==
    LET w == NameComma(mem, name) IN
    /\ state = 0
    /\ Fits(WordXt(w.nt))
    /\ mem' = [LatestOptimized(w.mem) EXCEPT ![w.nt].flags = flags]
    /\ here' = WordXt(w.nt)
    /\ latest' = w.nt

Colon(name) == Create(name, {}) /\ sys' = Append(sys, {}) /\ state' = WordXt(latest') /\ UNCHANGED <<last, search>>

(* :noname does not look at state.  When compiling, set-latest moves the   *)
(* XT and then ']' throws.                                                 *)
Noname ==
    LET w == NameComma(mem, <<>>) IN
    /\ Fits(WordXt(w.nt))
    /\ mem' = w.mem
    /\ latest' = w.nt
    /\ state' = IF state = 0 THEN WordXt(w.nt) ELSE 0
    /\ IF state = 0 THEN here' = WordXt(w.nt) /\ sys' = Append(sys, {"noname"})
                    ELSE here' = w.nt /\ UNCHANGED sys
    /\ UNCHANGED <<last, search>>

CompileToken ==
    /\ state # 0
    /\ here' = here + SZt /\ Fits(here')
    /\ mem' = Overwritten(mem, here, here')
    /\ UNCHANGED <<compiler, last, search>>

(* ';' is [finish] with the flags of colon-sys: exit, optimize to ASM or   *)
(* not, '[', align, add to the compilation wordlist.  The optimizer makes  *)
(* as many tokens or fewer, the ASM compiler puts (call-asm) CELL exit     *)
(* before them.                                                            *)
CodeLengths == {n + asm : n \in 1..((here - state) \div SZt + 1), asm \in {0, 2 + SZ \div SZt}}
Semi(n) ==
    /\ state # 0 /\ sys # <<>>
    /\ LET h == state + SZt * n
           m == Overwritten(mem, here, Aligned(h)) IN
       /\ Fits(Aligned(h))
       /\ latest \in DOMAIN m
       /\ here' = Aligned(h)
       /\ mem' = Added([m EXCEPT ![latest].code_n = n], latest, current)
    /\ last' = [last EXCEPT ![current] = latest]
    /\ state' = 0 /\ sys' = Front(sys)
    /\ UNCHANGED <<latest, search>>

(* create, buffer: and value: (create), code of n tokens, [finish], data.  *)
(* Only the last two tell the word how much data it has.                   *)
Defining(name, flags, code, n, data_n) ==
    LET w == NameComma(mem, name)
        m == LatestOptimized(w.mem)
        h == Aligned(WordXt(w.nt) + SZt * n)
        header == [m[w.nt] EXCEPT !.flags = flags, !.code = code, !.code_n = n, !.data_n = data_n]
    IN  /\ state = 0
        /\ Fits(h + data_n)
        /\ here' = h + data_n
        /\ mem' = Added([Overwritten(m, WordXt(w.nt), h + data_n) EXCEPT ![w.nt] = header], w.nt, current)
        /\ latest' = w.nt
        /\ last' = [last EXCEPT ![current] = w.nt]
        /\ UNCHANGED <<state, sys, search>>

CreateTokens == 3 + SZ \div SZt      \* (ip>data>addr) (call) XT exit
CreateWord(name) == Defining(name, {"create"}, "call noop", CreateTokens, 0)
BufferColon(name) == Defining(name, {"var"}, "data address", 2, SZ)
Value(name) == Defining(name, {"value"}, "data address", 3, SZ)

(* (does), called by a defining word: the word just created calls it *)
Does ==
    /\ latest \in DOMAIN mem /\ "create" \in mem[latest].flags
    /\ mem' = [mem EXCEPT ![latest].code = "call does"]
    /\ UNCHANGED <<here, compiler, last, search>>

\* Bound: only to give data to the last word made with 'create'
Comma ==
    /\ state = 0
    /\ latest \in DOMAIN mem /\ mem[latest].code # "tokens" /\ here < DataAddr(latest) + 2 * SZ
    /\ here' = here + SZ /\ Fits(here')
    /\ mem' = Overwritten(mem, here, here')
    /\ UNCHANGED <<compiler, last, search>>

Immediate ==
    /\ latest \in DOMAIN mem
    /\ mem' = [mem EXCEPT ![latest].flags = @ \cup {"immediate"}]
    /\ UNCHANGED <<here, compiler, last, search>>

LeftBracket ==
    /\ state # 0 /\ latest \in DOMAIN mem
    /\ mem' = [mem EXCEPT ![latest].code_n = (here - state) \div SZt]
    /\ state' = 0
    /\ UNCHANGED <<here, latest, sys, last, search>>

(* ']' resumes the code of latest, whatever latest is.  Bound: only right  *)
(* after '[', with nothing else defined or stored.                         *)
RightBracket ==
    /\ state = 0 /\ latest \in DOMAIN mem
    /\ sys # <<>> /\ latest \notin {last[w] : w \in wids}
    /\ here = WordXt(latest) + SZt * mem[latest].code_n
    /\ state' = WordXt(latest)
    /\ UNCHANGED <<heap, latest, sys, last, search>>

(* A throw: an undefined word, a stack underflow, ':' or ']' while          *)
(* compiling, ';' while not, 'also' or 'previous' at the limits.           *)
Error == CompilerAbort

---------------------------------------------------------------------------
(* The search order.  A word is typed, so the search order must find it:   *)
(* Forth has all of these words, Root some.                                *)

Typed(wl) == state = 0 /\ wl \cap SearchOrderUnique # {}
SetOrderTo(o) == order' = o /\ UNCHANGED <<heap, compiler, last, wids, current>>

AlsoTooMany == Typed({Forth}) /\ order # <<>> /\ SetOrderTo(Append(order, Last(order)))
Also == /\ Typed({Forth})
        /\ Len(order) < SearchOrderMax
        /\ SetOrderTo(Append(order, IF order = <<>> THEN NoWid ELSE Last(order)))
Previous == Typed({Forth}) /\ order # <<>> /\ SetOrderTo(Front(order))
Only == Typed({Forth}) /\ SetOrderTo(<<Root>>)

\* set-order, from the data stack: throws after filling the search order if there are too many
SetOrder(wl) == /\ Typed({Forth, Root}) /\ ToSet(wl) \subseteq wids
                /\ order' = SubSeq(wl, 1, IF Len(wl) < SearchOrderMax THEN Len(wl) ELSE SearchOrderMax)
                /\ UNCHANGED <<heap, compiler, last, wids, current>>

\* a word like 'forth' replaces the first wordlist in the search order
ReplaceFirst(wid) == /\ Typed({Forth, Root}) /\ wid \in wids
                     /\ order # <<>> /\ SetOrderTo(Append(Front(order), wid))
Definitions == /\ Typed({Forth}) /\ order # <<>>
               /\ current' = Last(order) /\ UNCHANGED <<heap, compiler, last, wids, order>>
SetCurrent(wid) == /\ Typed({Forth}) /\ wid \in wids
                   /\ current' = wid /\ UNCHANGED <<heap, compiler, last, wids, order>>
Wordlist(wid) == /\ Typed({Forth}) /\ wid \in NewWids \ wids
                 /\ wids' = wids \cup {wid} /\ UNCHANGED <<heap, compiler, last, current, order>>

---------------------------------------------------------------------------
AlsoWid(o, wid) == IF wid # NoWid /\ Len(o) < SearchOrderMax THEN Append(o, wid) ELSE o   \* m64th_also

(* C hosts.  Each test runner clears the machine, defines an unnamed word, *)
(* runs, and forgets the words the test left in the compilation wordlist.  *)

ForgetAll == /\ last[current] # 0
             /\ last' = [last EXCEPT ![current] = 0]
             /\ UNCHANGED <<heap, compiler, search>>

Clear == /\ \A w \in Wids : last[w] = 0
         /\ here' = DataStart /\ latest' = 0 /\ state' = 0 /\ sys' = <<>>
         /\ mem' = BuiltIns     \* nothing refers to the other headers
         /\ UNCHANGED <<last, search>>

HostColon == /\ state = 0 /\ latest = 0
             /\ LET w == NameComma(mem, <<>>) IN
                /\ Fits(WordXt(w.nt))
                /\ mem' = w.mem /\ here' = WordXt(w.nt) /\ latest' = w.nt /\ state' = WordXt(w.nt)
             /\ sys' = Append(sys, {})
             /\ UNCHANGED <<last, search>>

SyncLastw == /\ latest \in DOMAIN mem
             /\ IF state # 0 THEN mem' = [mem EXCEPT ![latest].code_n = (here - WordXt(latest)) \div SZt]
                ELSE /\ latest \in {last[w] : w \in wids}   \* a test ends its definitions
                     /\ mem' = [mem EXCEPT ![latest].data_n = here - DataAddr(latest)]
             /\ UNCHANGED <<here, compiler, last, search>>
---------------------------------------------------------------------------
Init == /\ mem = BuiltIns
        /\ here = DataStart /\ latest = 0 /\ state = 0 /\ sys = <<>>
        /\ last = [w \in Wids |-> 0]
        /\ wids = BuiltInWids
        /\ current = Forth
        /\ order = AlsoWid(AlsoWid(AlsoWid(<<>>, User), Forth), Forth)

Define == \/ \E name \in Names : \/ Colon(name) \/ CreateWord(name)
                                 \/ BufferColon(name) \/ Value(name)
          \/ Noname
          \/ \E n \in CodeLengths : Semi(n)
Body == CompileToken \/ Comma \/ Does \/ Immediate \/ LeftBracket \/ RightBracket \/ Error
Order == \/ Also \/ Previous \/ Only \/ Definitions
         \/ \E wid \in Wids : ReplaceFirst(wid) \/ SetCurrent(wid) \/ Wordlist(wid)
         \/ \E wl \in Orders : SetOrder(wl)
Host == ForgetAll \/ Clear \/ HostColon \/ SyncLastw

Next == Define \/ Body \/ Order \/ Host
Spec == Init /\ [][Next]_vars

---------------------------------------------------------------------------
(* The type of the state: the search order never has more than             *)
(* SearchOrderMax wordlists and never the NULL one that searchorder-dup    *)
(* makes out of an empty order (generic_asm/core.S:283).                   *)
TypeOK ==
    /\ DOMAIN BuiltIns \subseteq DOMAIN mem
    /\ here \in DataStart..DataSpace
    /\ latest \in 0..DataSpace
    /\ state = 0 \/ (state = WordXt(latest) /\ latest \in DOMAIN mem)
    /\ \A w \in Wids : last[w] = 0 \/ w \in wids
    /\ wids \subseteq Wids /\ current \in wids
    /\ Len(order) <= SearchOrderMax /\ SearchOrderUnique \subseteq wids

UserWords == UNION {{nt \in ToSet(Words(w)) : nt > 0} : w \in wids}
Unfinished == IF state # 0 THEN {latest} ELSE {}

(* Every word a wordlist chains, and the word being compiled, is intact in *)
(* memory and has name, header, code and data to itself, below HERE: no    *)
(* order of definitions, errors and forgetting lets one word overwrite     *)
(* another (name, at generic_asm/core.S:128, compiler-abort, _finish_).    *)
WordsApart ==
    /\ \A w \in wids : /\ LastWord(w) \in DOMAIN mem \cup {0}
                       /\ \A nt \in ToSet(Words(w)) : WordPrev(mem, nt) \in {0} \cup {a \in DOMAIN mem : a < nt}
    /\ LET words == UserWords \cup Unfinished
           end(nt) == IF nt \in Unfinished THEN WordXt(nt) ELSE End(nt)
       IN  \A v \in words : end(v) <= here /\ \A w \in words : v < w => end(v) <= Start(w)

(* string>name finds, whatever the case of its letters, the newest word of *)
(* that name in the wordlist of highest priority that has one              *)
(* (forth/m64th/core.S:652, m64th.c:1320).                                 *)
Matching(str) == UNION {{<<i, nt>> : nt \in {n \in ToSet(Words(order[i])) : CiEquals(str, mem[n].name)}}
                           : i \in DOMAIN order}
FindsNewest ==
    \A str \in Names :
        LET nt == StringToName(str)
            matching == Matching(str) IN
        IF matching = {} THEN nt = 0
        ELSE \E i \in DOMAIN order :
                /\ <<i, nt>> \in matching
                /\ \A m \in matching : m[1] < i \/ (m[1] = i /\ m[2] <= nt)

(* TAB offers, for what is typed of a word, exactly the longer names in    *)
(* the search order, in order and without repetition, and each one is then *)
(* found (c_liblinenoise.c:136).                                           *)
Stems == {<<>>} \cup {SubSeq(name, 1, 1) : name \in Names}
CompletionsFound ==
    \A str \in Stems :
        LET offered == CompleteWord(str)
            visible == {mem[nt].name : nt \in UNION {ToSet(Words(w)) : w \in SearchOrderUnique}}
        IN  /\ ToSet(offered) = {name \in visible : StringIsPrefixOf(str, name)}
            /\ \A i \in 1..(Len(offered) - 1) : StringCompare(offered[i], offered[i + 1])
            /\ \A name \in ToSet(offered) : StringToName(name) # 0

(* Wordlists are piles of definitions: nothing but forgetting all of them  *)
(* ever makes a word unfindable (m64th.c:1314, generic_asm/core.S:368).    *)
BuiltInNames == [w \in Wids |-> NamesIn(BuiltIns, Chain(BuiltIns, IF w \in BuiltInWids THEN Dict[w] ELSE 0))]
WL == INSTANCE WordLists WITH Piles <- Wids, AnyName <- Names \cup {<<>>}, BuiltIn <- BuiltInNames,
                              words <- [w \in Wids |-> NamesOf(w)]
ImplementsWordLists == WL!WSpec

(* A findable word keeps the address of its data and what it does with it: *)
(* finding a created word a variable does not move its data, and one that  *)
(* got its does> keeps it (forth/m64th/impl.S:1881).                       *)
BodiesStay ==
    [][\A w \in wids : \A nt \in ToSet(Words(w)) :
          last'[w] # 0 =>
             /\ nt \in DOMAIN mem'
             /\ DataAddr(nt)' = DataAddr(nt)
             /\ mem[nt].code \in {"call does", "data address"} => mem'[nt].code = mem[nt].code
             /\ mem[nt].flags \cap {"immediate"} \subseteq mem'[nt].flags]_vars
=============================================================================
