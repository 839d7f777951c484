------------------------------ MODULE Stackish ------------------------------
(***************************************************************************)
(* The stackish Node library (stackish/node.c, node.h) and the actions of *)
(* its Ragel parser (stackish/stackish.c): Node_cons and Node_decons, the  *)
(* format-string interpreters every protocol message is built and read    *)
(* with; Node_bstr, the serializer; Node_parse_seq, which runs the parser  *)
(* over a buffer.                                                          *)
(*                                                                         *)
(* A Node is a record whose kids are its child list in list order:        *)
(* LIST_ADD puts a new child at the head, so kids[1] is the child added    *)
(* last and kids[i+1] is the sibling of kids[i].  A value is a pair        *)
(* <<number, text>>, a float a number of units of 10^-7.  A buffer is a    *)
(* sequence of tokens, each followed by its separator token: the lexer's  *)
(* character classes are abstracted (a word, a string or a blob is one    *)
(* token; the contents of strings and names are atoms), while every parser *)
(* action, and the position where the parser stops, is kept.               *)
(***************************************************************************)
EXTENDS Integers, Sequences, SequencesExt

NoName == <<"", "">>
Word(id) == <<"w", id>>     \* a name that does not begin with '@'
Attr(id) == <<"@", id>>     \* a name beginning with '@'
IsAttr(nm) == nm[1] = "@"
NoVal == <<0, "">>

\* struct Node (node.h): type, value, name and the child list.
Node(type, val) == [type |-> type, val |-> val, name |-> NoName, kids |-> <<>>]
Null == Node("null", NoVal)
Num(v) == Node("number", <<v, "">>)
Str(s) == Node("string", <<0, s>>)
Blob(s) == Node("blob", <<0, s>>)
Flt(v) == Node("float", <<v, "">>)
Grp == Node("group", NoVal)

\* Mutant: the new child is linked at the tail of the list.
AddChildAtTail(parent, n) == [parent EXCEPT !.kids = Append(@, n)]

\* Node_create / Node_add_child: LIST_ADD links the child at the head.
AddChild(parent, n) == [parent EXCEPT !.kids = <<n>> \o @]

\* Node_name
Named(n, nm) == [n EXCEPT !.name = nm]

-----------------------------------------------------------------------------
(* Open groups: a stack from the root to the current node.  A group is     *)
(* linked into its parent when it is left; nothing else is added to the    *)
(* parent while it is open, so the parent's list comes out as if it had    *)
(* been linked when it was created.                                        *)

AddTop(stack, n) == [stack EXCEPT ![Len(stack)] = AddChild(@, n)]
CloseTop(stack) == [Front(stack) EXCEPT ![Len(stack) - 1] = AddChild(@, Last(stack))]
NameHeadChild(stack, nm) == [stack EXCEPT ![Len(stack)].kids[1].name = nm]

RECURSIVE LinkAll(_)
LinkAll(stack) == IF Len(stack) = 1 THEN stack[1] ELSE LinkAll(CloseTop(stack))

LeafOf(c, a) ==
    CASE c = "n" -> Num(a) [] c = "f" -> Flt(a) [] c = "b" -> Blob(a) [] c = "s" -> Str(a)

\* Node_cons(format, ...): args holds the variadic arguments in order (a
\* name for '@' and 'w', a Node for 'G').  The result is the root, or Null
\* when the format is invalid, names a missing child, or leaves a group
\* open (the final assert).  The formats of this repository end with the
\* root's closer; anything after it is taken as invalid.
NodeCons(fmt, args) ==
  LET RECURSIVE Go(_, _, _)
      Rest(i) == \A j \in i..Len(fmt) : fmt[j] = " "
      Done(i, root) == IF Rest(i) THEN root ELSE Null
      Go(i, stack, a) ==
        IF i > Len(fmt) THEN Null
        ELSE LET c == fmt[i] IN
        CASE c = " " -> Go(i + 1, stack, a)
          [] c = "[" -> Go(i + 1, Append(stack, Grp), a)
          [] stack = <<>> -> Null
          [] c \in {"n", "f", "b", "s"} -> Go(i + 1, AddTop(stack, LeafOf(c, args[a])), a + 1)
          [] c = "G" -> Go(i + 1, AddTop(stack, args[a]), a + 1)
          [] c = "@" -> IF Last(stack).kids = <<>> THEN Null
                        ELSE Go(i + 1, NameHeadChild(stack, args[a]), a + 1)
          [] c = "]" -> IF Len(stack) = 1 THEN Done(i + 1, stack[1])
                        ELSE Go(i + 1, CloseTop(stack), a)
          [] c = "w" -> LET nstack == [stack EXCEPT ![Len(stack)] = Named(@, args[a])]
                        IN IF Len(stack) = 1 THEN Done(i + 1, nstack[1])
                           ELSE Go(i + 1, CloseTop(nstack), a + 1)
          [] OTHER -> Null
  IN Go(1, <<>>, 1)

-----------------------------------------------------------------------------
(* Node_decons walks a cursor, the path of kids indices from the root.     *)

NoPos == <<0>>    \* cur_node == NULL

RECURSIVE NodeAt(_, _)
NodeAt(t, p) == IF p = <<>> THEN t ELSE NodeAt(t.kids[Head(p)], Tail(p))

\* NEXT(): move to the sibling if there is one, else stay.
NextSib(t, p) ==
    IF p # <<>> /\ Last(p) < Len(NodeAt(t, Front(p)).kids)
    THEN [p EXCEPT ![Len(p)] = @ + 1] ELSE p

LeafType == [n |-> "number", f |-> "float", s |-> "string", b |-> "blob"]

\* Node_decons(root, copy, format, ...): lits holds the names expected by
\* '@' and 'w' in order.  out holds what the output arguments receive: the
\* value of a leaf as a fresh Node, the subtree for 'G'.
NodeDecons(t, fmt, lits) ==
  LET RECURSIVE Go(_, _, _, _)
      Fail == [ok |-> FALSE, out |-> <<>>]
      Go(i, p, l, out) ==
        IF i > Len(fmt) THEN [ok |-> TRUE, out |-> out]
        ELSE IF p = NoPos THEN Fail
        ELSE LET c == fmt[i]
                 n == NodeAt(t, p) IN
        CASE c = "[" -> Go(i + 1, IF n.kids = <<>> THEN NoPos ELSE Append(p, 1), l, out)
          [] c \in DOMAIN LeafType ->
                IF n.type # LeafType[c] THEN Fail
                ELSE Go(i + 1, NextSib(t, p), l, Append(out, Node(n.type, n.val)))
          [] c = "]" -> IF p = <<>> THEN Go(i + 1, NoPos, l, out)
                        ELSE Go(i + 1, NextSib(t, Front(p)), l, out)
          [] c = "@" -> IF n.name = lits[l] THEN Go(i + 1, p, l + 1, out) ELSE Fail
          [] c = "w" -> IF p = <<>> THEN Go(i + 1, NoPos, l, out)
                        ELSE IF NodeAt(t, Front(p)).name = lits[l]
                             THEN Go(i + 1, NextSib(t, Front(p)), l + 1, out)
                             ELSE Fail
          [] c = "G" -> Go(i + 1, NextSib(t, p), l, Append(out, n))
          [] c = "." -> Go(i + 1, NextSib(t, p), l, out)
          [] OTHER -> Fail
  IN Go(1, <<>>, 1, <<>>)

-----------------------------------------------------------------------------
(* Serializer *)

Tok(k, v) == [k |-> k, v |-> v]
Sep == Tok(" ", NoVal)
Newline == Tok("\n", NoVal)
Emit(k, v) == <<Tok(k, v), Sep>>

\* "%f": six decimals, that is a multiple of 10 units.
PrintF(v) == ((v + 5) \div 10) * 10

RECURSIVE CatNode(_), CatList(_)

\* Mutant: a node is written before its siblings.
CatListSelfFirst(kids) ==
    IF kids = <<>> THEN <<>> ELSE CatNode(Head(kids)) \o CatList(Tail(kids))

\* Node_catbstr over a sibling chain: the siblings first, then the node.
CatList(kids) ==
    IF kids = <<>> THEN <<>> ELSE CatList(Tail(kids)) \o CatNode(Head(kids))

\* Node_catbstr(str, d, ' ', 0)
CatNode(d) ==
    (IF d.type = "group" THEN Emit("[", NoVal) ELSE <<>>)
    \o CatList(d.kids)
    \o (CASE d.type = "group" ->
               IF d.name = NoName \/ IsAttr(d.name) THEN Emit("]", NoVal) ELSE <<>>
          [] d.type = "float" -> Emit("float", <<PrintF(d.val[1]), "">>)
          [] OTHER -> Emit(d.type, d.val))
    \o (IF d.name = NoName THEN <<>> ELSE Emit("name", d.name))

\* Node_bstr(d, 1) of a root
NodeBstr(d) == CatNode(d) \o <<Newline>>

-----------------------------------------------------------------------------
(* Parser *)

\* Node_from_str: strtoull or strtod of the token, or its bytes.  (The
\* values Node_bstr writes are in range, so strtoull's saturation at
\* ULLONG_MAX does not arise; TLC's integers do not reach it either.)
NodeFromStr(tk) == Node(tk.k, tk.v)

\* handle_start: a new group under the current node (the first one is
\* the root) becomes current.
HandleStart(stack) == Append(stack, Grp)

\* handle_push: Node_from_str under the current node; it fails when there
\* is none.
HandlePush(stack, tk) == AddTop(stack, NodeFromStr(tk))

\* handle_word: names the current node (handle_group clears the name) and
\* moves to its parent unless it is the root, which ends the document.
HandleWord(stack, nm) ==
    LET named == [stack EXCEPT ![Len(stack)] = Named(@, nm)]
    IN IF Len(stack) = 1 THEN named ELSE CloseTop(named)

HandleGroup(stack) == HandleWord(stack, NoName)

\* handle_attr: names the current node's first child; it fails when there
\* is none.
HandleAttr(stack, nm) == NameHeadChild(stack, nm)

\* stackish_parser_execute from index off, running the actions above: '['
\* and ']' act on themselves, a value or a name on the separator after
\* it; a failed action, or the root's word or ']', stops the machine
\* where it is.  Returns the root (Null if none was started; groups still
\* open when the buffer ends are returned as built) and the index where
\* the machine stopped.
ParseExec(buf, off) ==
  LET RECURSIVE Go(_, _, _)
      Stop(i, stack, rooted) == [root |-> IF rooted THEN LinkAll(stack) ELSE Null, nread |-> i]
      Close(i, stack, ns, at) ==
        IF stack = <<>> THEN [root |-> Null, nread |-> at]
        ELSE IF Len(stack) = 1 THEN [root |-> ns[1], nread |-> at]
        ELSE Go(i + 1, ns, TRUE)
      Go(i, stack, rooted) ==
        IF i > Len(buf) THEN Stop(i, stack, rooted)
        ELSE LET tk == buf[i] IN
        CASE tk.k \in {" ", "\n"} -> Go(i + 1, stack, rooted)
          [] tk.k = "[" -> Go(i + 1, HandleStart(stack), TRUE)
          [] tk.k \in {"number", "float", "string", "blob"} ->
                IF stack = <<>> THEN Stop(i + 1, stack, rooted)
                ELSE Go(i + 1, HandlePush(stack, tk), rooted)
          [] tk.k = "]" -> Close(i, stack, IF stack = <<>> THEN stack ELSE HandleGroup(stack), i)
          [] tk.k = "name" /\ IsAttr(tk.v) ->
                IF stack = <<>> \/ Last(stack).kids = <<>> THEN Stop(i + 1, stack, rooted)
                ELSE Go(i + 1, HandleAttr(stack, tk.v), rooted)
          [] tk.k = "name" ->
                Close(i, stack, IF stack = <<>> THEN stack ELSE HandleWord(stack, tk.v), i + 1)
  IN Go(off, <<>>, FALSE)

RECURSIVE SkipNewlines(_, _)
SkipNewlines(buf, j) ==
    IF j <= Len(buf) /\ buf[j].k = "\n" THEN SkipNewlines(buf, j + 1) ELSE j

\* Node_parse_seq(buf, &from): the buffer must end in whitespace; from
\* moves one past where the parser stopped, then over newlines.  (Ragel's
\* error state and the blob-resume loop are lexical and are not reached by
\* whole tokens.)
NodeParseSeq(buf, from) ==
    IF buf = <<>> \/ Last(buf).k \notin {" ", "\n"}
    THEN [root |-> Null, from |-> from + 1]
    ELSE LET r == ParseExec(buf, from)
         IN  [root |-> r.root, from |-> SkipNewlines(buf, r.nread + 1)]

\* Node_parse
NodeParse(buf) == NodeParseSeq(buf, 1).root

====
