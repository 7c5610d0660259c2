------------------------------ MODULE Decoders ------------------------------
(***************************************************************************)
(* What the HTTP request parser of the RAK4631 makes of a target and of a  *)
(* form, and its base64 (http_request_parser.cpp): pure functions, held to *)
(* the encodings they undo.                                                *)
(*                                                                         *)
(* The widths are scaled: a character has two digits of base 4 instead of  *)
(* two of base 16, a base64 character 3 bits instead of 6 and a byte 4     *)
(* instead of 8.  `typed' is what a client sent, of at most DecoderLength  *)
(* tokens.                                                                 *)
(***************************************************************************)
EXTENDS Integers, Sequences

LOCAL INSTANCE SequencesExt

CONSTANTS MAX_FORM_FIELDS, MAX_FORM_KEY_BYTES, MAX_FORM_VALUE_BYTES,
          MAX_ROUTE_BYTES, MAX_QUERY_BYTES, DecoderLength

ASSUME DecoderAssumption ==
    {MAX_FORM_FIELDS, MAX_FORM_KEY_BYTES, MAX_FORM_VALUE_BYTES, MAX_ROUTE_BYTES,
     MAX_QUERY_BYTES, DecoderLength} \subseteq Nat \ {0}

VARIABLE typed              \* tokens, each a sequence of characters

\* Character codes; the hexadecimal digits come last.
Nul == 0
Space == 2
Slash == 3
Dot == 4
Plus == 5
Percent == 6
Equals == 7
Ampersand == 8
Question == 9
Backslash == 10
Delete == 11
Digit(v) == 12 + v
Codes == 0 .. 15
Unprintable == {Nul, 1, Delete}

hexValue(ch) == IF ch >= Digit(0) THEN ch - Digit(0) ELSE -1

NotDecoded == [ok |-> FALSE]
Decoded(value) == [ok |-> TRUE, value |-> value]

SplitAt(s, separator) ==
    FoldLeft(LAMBDA parts, ch : IF ch = separator THEN Append(parts, <<>>)
                                ELSE [parts EXCEPT ![Len(parts)] = Append(@, ch)],
             << <<>> >>, s)
-----------------------------------------------------------------------------
(* urlDecode(), a character at a time: `missing' digits of an escape whose *)
(* first digit is `high'.                                                  *)

\* Mutant: one character more than the field holds.
EmittedBeyond(st, ch, most) ==
    [st EXCEPT !.ok = ch \notin Unprintable /\ Len(st.out) <= most,
               !.out = Append(@, ch), !.missing = 0]

Emitted(st, ch, most) ==
    [st EXCEPT !.ok = ch \notin Unprintable /\ Len(st.out) < most,
               !.out = Append(@, ch), !.missing = 0]

CharacterDecoded(st, ch, most, plusAsSpace) ==
    CASE ~st.ok -> st
      [] st.ok /\ st.missing = 0 ->
           IF ch = Percent THEN [st EXCEPT !.missing = 2]
           ELSE Emitted(st, IF ch = Plus /\ plusAsSpace THEN Space ELSE ch, most)
      [] st.ok /\ st.missing > 0 ->
           IF hexValue(ch) < 0 THEN [st EXCEPT !.ok = FALSE]
           ELSE IF st.missing = 2 THEN [st EXCEPT !.missing = 1, !.high = hexValue(ch)]
           ELSE Emitted(st, 4 * st.high + hexValue(ch), most)

urlDecode(encoded, most, plusAsSpace) ==
    LET end == FoldLeft(LAMBDA st, ch : CharacterDecoded(st, ch, most, plusAsSpace),
                        [ok |-> TRUE, missing |-> 0, high |-> 0, out |-> <<>>], encoded)
    IN IF end.ok /\ end.missing = 0 THEN Decoded(end.out) ELSE NotDecoded
-----------------------------------------------------------------------------
(* parseForm() and normalizeTarget() *)

\* One key=value.
FieldParsed(pair) ==
    LET equals == SelectInSeq(pair, LAMBDA ch : ch = Equals)
        key == SubSeq(pair, 1, equals - 1)
        value == SubSeq(pair, equals + 1, Len(pair))
        decodedKey == urlDecode(key, MAX_FORM_KEY_BYTES, TRUE)
        decodedValue == urlDecode(value, MAX_FORM_VALUE_BYTES, TRUE)
    IN IF \/ equals \in {0, 1}
          \/ Len(key) > 3 * MAX_FORM_KEY_BYTES \/ Len(value) > 3 * MAX_FORM_VALUE_BYTES
          \/ ~decodedKey.ok \/ ~decodedValue.ok
       THEN NotDecoded
       ELSE Decoded([key |-> decodedKey.value, value |-> decodedValue.value])

parseForm(encoded) ==
    LET pairs == SplitAt(encoded, Ampersand)
    IN IF encoded = <<>> THEN Decoded(<<>>)
       ELSE IF Len(pairs) > MAX_FORM_FIELDS \/ \E i \in DOMAIN pairs : ~FieldParsed(pairs[i]).ok
       THEN NotDecoded
       ELSE Decoded([i \in DOMAIN pairs |-> FieldParsed(pairs[i]).value])

\* The path, without empty segments and refused with dot segments; the query as it is.
Segments(path) == SelectSeq(SplitAt(path, Slash), LAMBDA segment : segment # <<>>)
Joined(segments) ==
    IF segments = <<>> THEN <<Slash>>
    ELSE FlattenSeq([i \in DOMAIN segments |-> <<Slash>> \o segments[i]])
SegmentRefused(segment) ==
    segment \in {<<Dot>>, <<Dot, Dot>>} \/ \E i \in DOMAIN segment : segment[i] = Backslash

normalizeTarget(target) ==
    LET question == SelectInSeq(target, LAMBDA ch : ch = Question)
        path == IF question = 0 THEN target ELSE SubSeq(target, 1, question - 1)
        query == IF question = 0 THEN <<>> ELSE SubSeq(target, question + 1, Len(target))
        decoded == urlDecode(path, MAX_ROUTE_BYTES, FALSE)
    IN IF \/ target = <<>> \/ ~IsPrefix(<<Slash>>, target)
          \/ Len(path) > MAX_ROUTE_BYTES \/ Len(query) > MAX_QUERY_BYTES \/ ~decoded.ok
          \/ \E segment \in ToSet(Segments(decoded.value)) : SegmentRefused(segment)
       THEN NotDecoded
       ELSE Decoded([route |-> Joined(Segments(decoded.value)), query |-> query])
-----------------------------------------------------------------------------
(* Base64 in its scaled widths: four characters of 3 bits for three bytes. *)

Pad == 8
NotBase64 == 9
Bytes == 0 .. 15

\* base64Encode(), a group of up to three bytes at a time.
GroupEncoded(bytes) ==
    LET byte(i) == IF i <= Len(bytes) THEN bytes[i] ELSE 0
        bits == 256 * byte(1) + 16 * byte(2) + byte(3)
    IN << bits \div 512, (bits \div 64) % 8,
          IF Len(bytes) > 1 THEN (bits \div 8) % 8 ELSE Pad,
          IF Len(bytes) > 2 THEN bits % 8 ELSE Pad >>
Groups(s, size) ==
    [g \in 1 .. (Len(s) + size - 1) \div size |->
        SubSeq(s, size * (g - 1) + 1, IF size * g < Len(s) THEN size * g ELSE Len(s))]
base64Encode(bytes) ==
    FlattenSeq([g \in DOMAIN Groups(bytes, 3) |-> GroupEncoded(Groups(bytes, 3)[g])])

\* base64Decode(): padding only at the end, and no bit of it set.
GroupBytes(group) == IF group[3] = Pad THEN 1 ELSE IF group[4] = Pad THEN 2 ELSE 3
GroupDecodes(group, isLast) ==
    /\ group[1] < Pad /\ group[2] < Pad /\ NotBase64 \notin {group[3], group[4]}
    /\ group[3] = Pad => group[4] = Pad
    /\ Pad \in {group[3], group[4]} => isLast
    /\ GroupBytes(group) = 1 => group[2] % 4 = 0
    /\ GroupBytes(group) = 2 => group[3] % 2 = 0
GroupDecoded(group) ==
    LET sextet(i) == IF group[i] = Pad THEN 0 ELSE group[i]
        bits == 512 * group[1] + 64 * group[2] + 8 * sextet(3) + sextet(4)
    IN SubSeq(<<bits \div 256, (bits \div 16) % 16, bits % 16>>, 1, GroupBytes(group))
base64Decode(input) ==
    LET groups == Groups(input, 4)
    IN IF \/ input = <<>> \/ Len(input) % 4 # 0
          \/ \E g \in DOMAIN groups : ~GroupDecodes(groups[g], g = Len(groups))
       THEN NotDecoded
       ELSE Decoded(FlattenSeq([g \in DOMAIN groups |-> GroupDecoded(groups[g])]))
-----------------------------------------------------------------------------
\* What a client types: plain characters, separators and escapes of every kind.
Tokens == {<<Slash>>, <<Dot>>, <<Percent>>, <<Equals>>, <<Ampersand>>, <<Question>>, <<Digit(1)>>}
          \union {<<Percent, Digit(ch \div 4), Digit(ch % 4)>> : ch \in {Nul, Slash, Ampersand}}
Text == FlattenSeq(typed)

DecodersInit == typed = <<>>
Typed == Len(typed) < DecoderLength /\ \E token \in Tokens : typed' = Append(typed, token)
NextRequest == typed # <<>> /\ typed' = <<>>
DecodersNext == Typed \/ NextRequest
DecodersSpec == DecodersInit /\ [][DecodersNext]_typed
-----------------------------------------------------------------------------
DecodersTypeOK == typed \in Seq(Tokens) /\ Len(typed) <= DecoderLength

\* A browser's encoding: what separates is escaped, a space is a plus.
Escaped(ch) == <<Percent, Digit(ch \div 4), Digit(ch % 4)>>
EncodedValue(value) ==
    FlattenSeq([i \in DOMAIN value |->
        IF value[i] = Space THEN <<Plus>>
        ELSE IF value[i] >= Digit(0) THEN <<value[i]>> ELSE Escaped(value[i])])
EncodedField(field) == EncodedValue(field.key) \o <<Equals>> \o EncodedValue(field.value)
EncodedForm(fields) ==
    FlattenSeq([i \in DOMAIN fields |->
        (IF i = 1 THEN <<>> ELSE <<Ampersand>>) \o EncodedField(fields[i])])

\* A form that is taken has fields within their bounds and without control characters,
\* and means what its encoding means.
FormTaken ==
    LET form == parseForm(Text)
    IN form.ok =>
        /\ Len(form.value) <= MAX_FORM_FIELDS
        /\ \A i \in DOMAIN form.value :
             /\ Len(form.value[i].key) \in 1 .. MAX_FORM_KEY_BYTES
             /\ Len(form.value[i].value) <= MAX_FORM_VALUE_BYTES
             /\ ToSet(form.value[i].key \o form.value[i].value) \cap Unprintable = {}
        /\ parseForm(EncodedForm(form.value)) = form

\* A route that is taken is absolute, has neither empty nor dot segments, and is its own
\* normal form once encoded again.
RouteTaken ==
    LET target == normalizeTarget(Text)
        segments == SplitAt(Tail(target.value.route), Slash)
    IN target.ok =>
        /\ IsPrefix(<<Slash>>, target.value.route) /\ Len(target.value.route) <= MAX_ROUTE_BYTES
        /\ segments # << <<>> >> =>
             \A i \in DOMAIN segments : segments[i] \notin {<<>>, <<Dot>>, <<Dot, Dot>>}
        /\ Percent \notin ToSet(target.value.route) =>
             normalizeTarget(target.value.route) = Decoded([target.value EXCEPT !.query = <<>>])

\* Every form a browser can send within the bounds is taken for what it is, and base64
\* decodes exactly what base64Encode() makes.
FieldTexts(most) == UNION {[1 .. n -> Codes \ Unprintable] : n \in 0 .. most}
FieldLists ==
    {<<[key |-> k, value |-> v]>> : k \in FieldTexts(MAX_FORM_KEY_BYTES) \ {<<>>},
                                    v \in FieldTexts(MAX_FORM_VALUE_BYTES)}
    \union {<<[key |-> k, value |-> <<>>], [key |-> <<Space>>, value |-> v]>> :
              k \in FieldTexts(1) \ {<<>>}, v \in FieldTexts(1)}
CodecsInverse ==
    /\ \A fields \in FieldLists : parseForm(EncodedForm(fields)) = Decoded(fields)
    /\ \A n \in 1 .. MAX_FORM_FIELDS + 1 :
         parseForm(EncodedForm([i \in 1 .. n |-> [key |-> <<Dot>>, value |-> <<>>]])).ok
           <=> n <= MAX_FORM_FIELDS
    /\ \A n \in 1 .. 3 : \A bytes \in [1 .. n -> Bytes] :
         base64Decode(base64Encode(bytes)) = Decoded(bytes)
    /\ \A group \in [1 .. 4 -> 0 .. NotBase64] :
         /\ base64Decode(group).ok => base64Encode(base64Decode(group).value) = group
         /\ base64Decode(group \o <<0, 0, Pad, Pad>>).ok =>
              base64Encode(base64Decode(group \o <<0, 0, Pad, Pad>>).value)
                = group \o <<0, 0, Pad, Pad>>

\* The decoders undo the encodings they are for, and take nothing else (urlDecode(),
\* parseForm(), normalizeTarget() and base64Decode() against their inverses).
DecodersFaithful == FormTaken /\ RouteTaken /\ (typed = <<>> => CodecsInverse)
=============================================================================
