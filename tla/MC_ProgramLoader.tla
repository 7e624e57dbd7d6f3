-------------------------- MODULE MC_ProgramLoader --------------------------
(***************************************************************************)
(* A small instance of ProgramLoader: six bytes of memory, an address space of *)
(* 128 bytes, two calls.  The first leaves bytes behind or fails; the second    *)
(* is any image of two program headers, any image with one faulty header field, *)
(* or a raw load, while the raw file is rewritten.                            *)
(***************************************************************************)
EXTENDS ProgramLoader

HeaderFields == [size |-> 120, magic |-> TRUE, class |-> 1, data |-> 1,
                 identVersion |-> 1, version |-> 1, headerSize |-> 52, type |-> 2,
                 machine |-> 8, entry |-> 3, phoff |-> 52, phentsize |-> 32]
With(e, table) == [f \in DOMAIN e \cup {"phnum", "table"} |->
                     CASE f = "phnum" -> Len(table)
                       [] f = "table" -> table
                       [] OTHER -> e[f]]
Image(table) == With(HeaderFields, table)

Header(offset, vaddr, filesz, memsz, align) ==
    [type |-> 1, offset |-> offset, vaddr |-> vaddr, filesz |-> filesz,
     memsz |-> memsz, align |-> align]
Note == [type |-> 4, offset |-> 500, vaddr |-> 0, filesz |-> 9, memsz |-> 1, align |-> 3]

\* Table entries: payload bytes 116..119, ranges that touch, overlap, are empty, run
\* past the memory, the image or the address space.
Segments ==
    {Header(o, v, f, m, 1) : o \in {116, 118}, v \in {0, 2, 4}, f \in {0, 2}, m \in {0, 2, 3}}
Oddities ==
    {Header(116, 4, 2, 2, a) : a \in {0, 2, 3, 4, 8}} \cup
    {Header(117, 1, 1, 1, 4), Header(117, 2, 1, 1, 2), Header(119, 0, 2, 2, 0),
     Header(121, 0, 0, 0, 0), Header(120, 6, 0, 0, 0), Header(116, 7, 0, 0, 0),
     Header(127, 0, 2, 2, 0), Header(116, 127, 0, 2, 0), Header(116, 3, 3, 1, 0), Note}
Tables ==
    {<<>>} \cup {<<h>> : h \in Segments \cup Oddities}
           \cup {<<h, g>> : h \in Segments, g \in Segments}
           \cup {<<h, g>> : h \in {Header(116, 0, 2, 3, 1), Note}, g \in Oddities}
           \cup {<<Header(116, 0, 1, 1, 0), Header(117, 1, 1, 2, 0), Header(118, v, 1, 2, 0)>> :
                    v \in {2, 3, 4, 5}}

Good == <<Header(116, 0, 2, 3, 4), Header(118, 3, 1, 2, 1)>>
Fault(field, value) == [Image(Good) EXCEPT ![field] = value]
Faulty ==
    {Fault(x[1], x[2]) :
        x \in {<<"size", 15>>, <<"size", 51>>, <<"size", 52>>, <<"size", 115>>, <<"size", 116>>,
               <<"magic", FALSE>>, <<"class", 2>>, <<"data", 0>>, <<"data", 2>>,
               <<"identVersion", 0>>, <<"version", 2>>, <<"headerSize", 64>>, <<"type", 3>>,
               <<"machine", 3>>, <<"phoff", 57>>, <<"phoff", 56>>, <<"phoff", 65>>,
               <<"phentsize", 40>>}}
    \cup {[Fault("machine", 3) EXCEPT !.version = 0], [Fault("type", 1) EXCEPT !.phoff = 120],
          [Fault("data", 2) EXCEPT !.headerSize = 0], [Fault("size", 160) EXCEPT !.phoff = 80]}

Elf(api, e) == [api |-> api, image |-> e, address |-> 0]
Raw(size, address) == [api |-> "load_raw_binary", image |-> [size |-> size], address |-> address]
RawFile(address) == [api |-> "load_raw_binary_file", image |-> [size |-> 0], address |-> address]
RawCalls == {Raw(n, a) : n \in {0, 2}, a \in {-1, 0, 4, 5, 6, 7}} \cup {RawFile(a) : a \in {0, 4, 7}}

MCRequests ==
    <<{Elf("load_ee_elf32_image", Image(Good)), RawFile(3), Raw(6, 0), Raw(7, 0)},
      {Elf("load_ee_elf32_image", Image(t)) : t \in Tables}
          \cup {Elf(api, e) : api \in ElfApis, e \in Faulty \cup {Image(Good)}}
          \cup {Elf("load_ee_elf32_file_segments", Image(<<h>>)) : h \in Segments}
          \cup RawCalls>>
Sizes == {0, 2, 4, Missing}
==============================================================================
