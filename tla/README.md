# sfp-creator: specifications, model checking and proofs

sfp-creator makes patch programs. On the creator's machine the *configurator*
reads a JSON configuration, and the *packer* compresses the files it names and
writes them, as C++ arrays, into `patcher/archive.h`. The *patcher* is compiled
with that header and run on a user's machine, where it replaces the user's files
with the packed ones, keeping backups. Compression, checksums of frames and the
file reader come from a copy of the lz4 library that is part of the repository.

This directory holds TLA+ modules that model these parts, TLC configurations
that check them on small instances, and TLAPS proofs of the most important
properties for every instance.

- [Inventory](#inventory): the system's parts, their state, hard behaviours and
  what makes them correct
- [Modules](#modules): what is modelled, and how it corresponds to the code
- [Runs](#runs): what TLC checks, the bounds and the fairness
- [Proofs](#proofs): the theorems, their assumptions and arguments
- [Noticed](#noticed): what the code does and nobody may expect
- [Not modelled](#not-modelled), [Plan](#plan)

Lines are of the files under `src/`. `tlc -config MCPatcher_safety.cfg MCPatcher`
runs a check, `tlapm PatcherProofs.tla` checks proofs.

## Inventory

How the parts interact: `configurator/Configurator.cpp` calls the JSON parser
(through `Config`), the rules, and then `ArchiveBuilder::AddFiles` once;
`ArchiveBuilder` calls `archiver::compress` (lz4's blocks) and
`archiver::crc32b` for each file and writes `archive.h`; the patcher's `Unpack`
reads the arrays of that header, calls lz4's file reader (over its frames, its
blocks and xxHash), `PathUtils::Path::Append`, `std::filesystem` and
`archiver::crc32b`. Everything is sequential and single-threaded. The
interleavings that matter are with the environment: I/O that fails, the process
that dies, the user who starts the patcher again, other programs; and, in the
library, the ways a program may cut its input, place its buffers and use its
contexts again.

| Part | State | Operations | Hard behaviour | Correct when |
|---|---|---|---|---|
| Patcher, `patcher/` | the user's files and `.bal` backups; position in the archive; output stream; temporary file | `Unpack`, `BackUpFile`, `HandleFile`, `DecompressFile`, `IsFileCorrect`, `RestoreFile` | dies or fails between any two file operations; starts again over the wreck; exceptions swallowed in some places and fatal in others; partial copies and writes | what the user had is never lost; backups are kept until restored; no wrong content passes in silence; a run ends; intact entries are delivered |
| Packer, `archiver/archiver.cpp` | the text of `archive.h`; `files`, `files_def`; the stream's failure; writer flags | constructor, `AddFiles`, `AddFile`, `AddSection`, `WriteToSection`, destructor | one file of several fails at different points; stream errors nobody looks at; empty input | every definition leads to its own file's bytes; the header is well-formed; no file gets another's path; what is published is what was kept |
| Checksum, `crc32b` | register and position | two overloads, memory and file | sign extension of `char`; white space in formatted reads; read errors taken for the end | both overloads agree and compute CRC-32; a changed byte is noticed |
| JSON parser, `shared/json.h` | the source text of each value | `ClearString`, `FindPair`, `JObject::Value`, `JArray::Value`, `Parse` | quotes, nesting, ends of arrays, map order | values read are those written, in order |
| Config, rules and main, `configurator/` | the parsed configuration, the exit code | `Create`, `Check`, `main` | missing keys; paths at the boundary of a rule; exceptions that leave `main` | only a configuration that lacks something ends the program by an exception; what is packed was accepted |
| Path library, `shared/path_lib.h` | none | `Append` | separators on either side, extensions | one separator between the parts |
| Blocks, `lib_lz4/lz4.c` | hash table, its type and offset, dictionary, attached context; prefix and external dictionary of a decoder | compression in one call, into a given size, in chains; dictionaries; decoding safe, partial, in chains | tables used again by other kinds of calls; histories that move, are cut or overlap; copies by words near the end of a buffer; damaged blocks | what was compressed comes out; nothing outside the buffers is read or written; blocks are the format's |
| High compression, `lib_lz4/lz4hc.c` | hash and chain tables, base, limits, external dictionary, level | the same | three overlapping matches at a time; patterns; prices; dictionaries | as for blocks |
| Frames, `lib_lz4/lz4frame.c` | a writer's buffer, history and checksum; a reader's stage, stored bytes, history and checksums | begin, update, flush, end; decompress, frame info, reset | input and output cut anywhere; history in the destination, in the buffer or in both; contexts used again; damage | the reader gives the writer's text in order and no other; the bounds suffice; no stall; damage is found |
| Files of frames, `lib_lz4/lz4file.c` | buffered input, position, contexts | open, read, write, close | the header read ahead; partial input; errors in the middle | what is read is what was written, or an error |
| xxHash, `lib_lz4/xxhash.c` | accumulators, a partial stripe, the length | one-shot and streaming, 32 and 64 bits | pieces around the buffer; byte order; the length's wrap | a stream's digest is the one-shot hash, on any processor |
| Rest: liblog, utils, examples, build files | | | | |

`PROJECT.json` lists the parts with their status, and under `hazards` each place
where something could go wrong that a test would hardly reach. The repository's
own test of the patcher has its call of `Unpack` commented out
(`tests/patcher_test/unpack_test.cpp`), and the library comes without its tests.

## Modules

### Patcher (`Patcher.tla`, `Replacement.tla`, `MCPatcher.tla`, `PatcherProofs.tla`)

Models `patcher/patcher.cpp` and its `main`. The state is the user's directory
(`disk`, a function from the paths that exist to contents) and the process:
`pc`, the loop index `i`, whether the `ofstream` on the target is `good`, what
the LZ4 reader has still to return (`pending`), and which mismatches were logged
(`reported`). Two history variables serve the properties: `saved`, what each
complete backup was made from, and `before`, the directory when the run started.

| Code | Actions |
|---|---|
| `main`, a start of the program | `Start` |
| `Unpack`, loop | `NextFile`, `Finish`, `Report` |
| `BackUpFile` and the `catch` around it | `BackUp`, `BackUpRefused`, `BackUpTorn` |
| `HandleFile`, `DecompressFile` | `WriteTmp`, `WriteTmpFails`, `OpenOut`, `OpenOutFails`, `ReadOpens`, `ReadOpenFails`, `WriteChunk`, `ReadError`, `ReadEnd` |
| `IsFileCorrect` | `FileCorrect`, `FileIncorrect`, `CheckThrows` |
| `RestoreFile` and the `catch` around it | `RestoreRefused`, `Restore`, `RestoreTorn`, `Unlink` |
| environment | `Kill`, `Vanish` |

One action is one operation on the directory with its outcome. Where an
operation can stop half way (a copy, a write, a flush) what it leaves is any
prefix (`Torn`). `copy_file` without options refuses an existing destination, so
`BackUp` needs a path without `.bal`, and `RestoreFile` succeeds only when the
target has vanished; otherwise `RestoreRefused`.

Contents are sequences of chunks; a chunk is what a call of `LZ4F_read` returns.
Equality of contents stands for equality of checksum and size, which is what
`IsFileCorrect` compares; `Crc32` is about how far that is justified. What the
library makes of an entry's bytes is part of the entry (`form`, `chunks`,
`fault`). Three things the code leaves to its environment are constants:

- `ReadBack`: `HandleFile` writes the temporary file and then has it read
  without a reposition in between. C leaves the result undefined; in practice
  the read starts where the write ended (`"eof"`), while the code relies on the
  beginning (`"content"`).
- `TextMode`: `HandleFile` opens its output stream without `std::ios::binary`
  (line 53), so on Windows each 0x0A is written as 0x0D 0x0A. `TextMode[c]` is
  what the file holds for a chunk `c`; where the system has no text mode it is
  `c`. `IsFileCorrect` looks at the bytes of the file (`crc32b` opens it as
  binary), so an entry with such a chunk is delivered wrong, and reported.
- `Faults`: `"io"` (any file operation may fail), `"kill"` (the process may die
  at any point), `"foreign"` (another program takes the target away between the
  check and the restore).

Dying means the process, not the machine: what was written to a closed file
stays. `Bak` is assumed to be injective and to lead outside the archive's targets
(`BakAssumption`): no archive names both `f` and `f.bal`.

Properties: `BackupIntact`, `BackupReleased`, `Accounted`, `Recoverable`,
`Terminates`, `Delivers`, `Replaces`; each is stated in words where it is defined.

`Replacement.tla` is what the patcher promises the user, without temporary files,
streams, readers or names of backups: entries are taken one after the other; a
copy of the file at hand is kept where that can be done; meanwhile no other file
changes; an entry is passed when its file is right, or reported; a copy goes only
when the file is again what was copied; and a run may break off anywhere.
`Replaces` is that specification with `Files` (the part of `disk` the archive is
about), `Copies` (what lies at the `.bal` of each complete backup) and `Stage`
(where `pc` is) for its variables. That the copies are read from the disk, and
not from the history variable, is the point: a step that spoils a backup is no
step of `Replacement`.

### Packer (`ArchiveBuilder.tla`, `MCArchiveBuilder.tla`, `ArchiveBuilderProofs.tla`)

Models `archiver/archiver.cpp` without the checksum. `text` is what
`archive_file` has taken, as declarations with initializers; `stream`,
`new_section`, `append_comma`, `files` and `files_def` are the code's variables
(`stream` is that the `ofstream` is open and good). `todo` is what the loop of
`AddFiles` has before it; `asked` and `lost` are history.

| Code | Actions |
|---|---|
| `ArchiveBuilder::ArchiveBuilder` | `Construct` |
| `AddFiles`, up to its loop | `AddFiles` |
| `AddFile` with `compress` | `AddFile`, `AddFileHalf` (`push_back` throws), `AddFileThrows` |
| `AddFiles`, after its loop | `AddControl`, `AddControlCrashes` (no file), `AddArchive` |
| destructors | `Destroy` |
| `AddSection`, `WriteToSection`, `~ArchiveWriter` | operators `AddSection`, `WriteToSection`, `Declare`, `Emit`, `Ended`, `Opened`, `Filled` |

A byte of `data[]` is one initializer; the bytes of a structure in `control[]`
and `archive[]` are taken together. `Lz4` maps a content to its compressed
bytes, and to the empty sequence when `LZ4_compress_default` refuses it, which it
reports as size 0. `compress` reads the file through a stream in text mode (line
21) into a zeroed buffer as long as the file: `TextMode` is what the buffer then
holds, `ReadOf` all that it may hold. The crc and size a definition holds stand for the content
they were taken of. `Faults`: `"read"` (exists, file_size or open fail for a
file that is there), `"short"` (fewer bytes come than the size said; the rest of
the buffer is zero), `"write"` (the stream fails, from then on for good; what a
failing stream lets through is left open, so the properties about the text ask
for `stream`), `"memory"` (`push_back` throws after the bytes were written).

Properties: `SlicesMatch`, `WellFormed`, `Faithful`, `Packs`. A file that the
compressor refuses has size 0 and one byte in `data[]`, so the definitions behind
it are off (`RefusedBefore`), and the totals are wrong (`Exact`): the properties
are about the definitions up to there, and about the texts in which it does not
happen. `LZ4_compress_default` refuses what is larger than `LZ4_MAX_INPUT_SIZE`;
the size becomes an `int` first, so one beyond 4 GB may pass for a small one, of
which only `Lz4` would know.

`Package.tla` is what the packer promises, without any text: a vector is asked
for, each file in turn is kept, under the user's path and as what the compressor
makes of it, or is left out, and what is published is what was kept, whole and in
order. `Packs` is that specification with `todo` for what is left, `Kept` (the
bytes each definition of `files` leads to in `data[]`), `Stage` and `Out` (what a
reader of the finished text finds, going from `archive[]` to `control[]` to
`data[]`, `ReadBack`). An end of the program over a text the stream did not take
whole, or in which a file's bytes and definition do not agree, publishes nothing,
and maps to a stutter.

### Checksum (`Crc32.tla`, `Crc32Standard.tla`, `MCBytes.tla`, `Crc32Proofs.tla`, `Crc32StandardProofs.tla`)

A word is the set of its bits. `Step` is a turn of the inner loop, `Absorb` what
happens to a byte, with the conversion of a `char` that may be signed
(`Extended`). `NextByte` runs a turn of both overloads side by side, over a block
in memory and a file of the same size: neither reads what the other writes, so
running them together loses nothing, and the product lets two contents be
compared at every point. `Crc32Standard` defines CRC-32 independently of the
loops: the message as a polynomial, its first 32 coefficients inverted, divided
by the generator one exponent after the other from the highest (`Remainder`), and
what is left read backwards and inverted (`Standard`).

Properties: `OneByteSeen`, `ComputesCrc32OfPlain`.

### xxHash (`XxHash.tla`, `MCBytes.tla`, `XxHashProofs.tla`)

Models `XXH32` and `XXH64`: reset, update, digest and the hash in one call, with
the copies into `mem32` and `mem64`, the stripes, the tail by words and bytes,
the counted length and the reads on either byte order. Sizes are the real ones.
Mixing is free: a round appends the word it takes to its lane, so two hashes are
equal here exactly when they are of the same reads in the same order. The length
counts modulo `Wrap`.

Properties: `BuffersFit`, `StreamIsOneShot`, `Portable`.

### Blocks (`Lz4Base`, `Lz4Encoder`, `Lz4Decoder`, `Lz4Decoding`, `Lz4DecodingProofs`, `Lz4Stream`, `Lz4HcSearch`, `Lz4Hc`, `Lz4HcOptimal`, `Lz4HcStream`; composed in `Lz4Chain`)

Models `lz4.c` and `lz4hc.c` over real bytes in one memory. A function that runs
a loop over its state is a recursive operator on a record of the function's
variables; the record also keeps what the properties ask: the furthest address
written (`wr`) and read (`rd`), whether every match was looked for inside the
buffers (`inside`).

| Module | Code |
|---|---|
| `Lz4Base` | sizes and limits (`LZ4_MAX_INPUT_SIZE`, beyond which every compressor refuses), reads, `LZ4_count`, lengths, copies by words that overshoot |
| `Lz4Encoder` | `LZ4_compress_generic` with its table types, dictionary modes and output modes |
| `Lz4Decoder` | `LZ4_decompress_generic`: fast loop, short cut, safe loop; full and partial; prefix, external and split histories; what `LZ4_decompress_safe`, `_fast`, `_partial`, `_continue` and `_usingDict` ask of it |
| `Lz4Decoding` | one checked decoding, step by step |
| `Lz4Stream` | `LZ4_compress_default`, `LZ4_compress_destSize`, `LZ4_prepareTable` and the fast reset; `LZ4_loadDict`, `LZ4_attach_dictionary`, `LZ4_compress_fast_continue`, `LZ4_saveDict`; a decoding run to its end |
| `Lz4HcSearch`, `Lz4Hc`, `Lz4HcOptimal`, `Lz4HcStream` | insertion and search with patterns and dictionaries; the hash chain and the optimal parser; chains, dictionaries, levels |
| `Lz4Chain` | a sender and a receiver with their buffers: `Compress`, `CompressHC`, `StartChain`, `StartWithDict`, `Continue`, saving dictionaries, `Decompress` by every decoder, `Damage` |

A byte takes the values `0 .. BYTE`, a token's halves `0 .. ML_MASK`, an offset
two bytes of `HALF` values; table and window sizes follow from these. The limits
on parsing that keep copies by words inside buffers (4, 5, 8, 12, 64) are the
real ones. In `Lz4Chain` the sender writes its chunks into a ring or a second
buffer, as `lz4.h` allows; the receiver decodes each block before the next is
made, into its own ring, right behind the last or elsewhere; a block alone may
use a fresh context or one used before.

Properties: `RoundTrip`, `Fits`, `SearchStaysInside`, `EndOfBlock`,
`DecodesTheFormat`, which compares with `Meaning`, a definition of the block
format by itself.

`Lz4Decoding` takes the decoder alone, as a state machine to be proved about: the
call (`LZ4_decompress_safe_continue`, `LZ4_decompress_safe_usingDict` or
`LZ4_decompress_safe_partial`) is made with any block, which need not come from a
compressor, any destination, and any history; a step is one sequence of the fast
loop or one part of a sequence of the safe one (`StepOn`). `given` is the history
the caller has, apart from what the decoder is told of it. Copies by groups are
written in closed form (`WildCopy`: which addresses are written, and which byte
each gets), the lengths with further bytes by the place where they stop. Its
properties are `NothingOutside` (no write outside the destination, no read behind
the block, no match looked for before the history) and `Advances` (each step
reads on or ends the decoding). `LZ4_decompress_fast`, which trusts its block, is
in `Lz4Chain` only.

### Frames (`Lz4FrameFormat`, `Lz4FrameWriter`, `Lz4FrameReader`, `Lz4FrameDecompress`, `Lz4File`; composed in `Lz4FrameStream`; `Lz4FrameReading`, `Lz4FrameReadingProofs`)

Models `lz4frame.c` and `lz4file.c`. A byte of a frame is its value, or, for a
checksum, what it was taken of, or, for a compressed block, which text it holds
and after which history it was made: only the same history decodes it. That keeps
the interesting state, where the history of linked blocks lies and when it moves,
and leaves the blocks' insides to `Lz4Chain`.

| Module | Code |
|---|---|
| `Lz4FrameWriter` | `LZ4F_compressBegin_internal`, `LZ4F_compressUpdateImpl`, `LZ4F_flush`, `LZ4F_compressEnd`, `LZ4F_compressFrame`, the bounds, saving and moving the history |
| `Lz4FrameReader` | every stage of `LZ4F_decompress` and what it does at its end, `LZ4F_decodeHeader`, `LZ4F_updateDict`, reset; no recursion |
| `Lz4FrameDecompress` | whole calls of `LZ4F_decompress`, `LZ4F_decompress_usingDict` and `LZ4F_getFrameInfo` |
| `Lz4FrameReading` | a program that uses one `LZ4F_dctx`, stage by stage |
| `Lz4File` | opening, reading, writing and closing a file of frames |
| `Lz4FrameStream` | the sender and the receiver: `Begin`, `Update`, `Flush`, `End`, `Frame`, `OpenFile`, `WriteFile`, `CloseFile`, `Skippable`, `Damage`, `Decompress`, `GetInfo`, `ReadOpen`, `ReadFile`, `NextFrame`, `ResetFrame` |

In `Lz4FrameStream` one action is one call of the library. Its arguments, how much
input and how much room, are any of a few sizes. Unless a call was made with `stableSrc` or
`stableDst`, the program's buffers are filled with something else afterwards.
`Reset` says which unfinished frames the receiver gives up; with `"all"` the
property `GoodFramesAreRead` fails (run `lz4_reset`). `Damage` changes a byte or
cuts the frame off; `damaged` tells a byte of a block's size field (`SizeFields`)
from others, because no checksum of a block covers it.

`ByteStream.tla` is the promise: what the receiver has is always the beginning
of what was sent, and the end is told when it has all. `IsByteStream` states it
of undamaged frames. The other properties are `StaysInside`,
`GoodFramesAreRead`, `DamageIsFound`, `NeverStalls` and `HintsWithinFrame`.

`Lz4FrameReading` takes the reader alone, as a state machine to be proved about.
A call begins (`DecompressPlain`, `DecompressUsingDict`), `Turn` is one turn of
the loop in `LZ4F_decompress`, and `Return` its end; `GetFrameInfo` and
`ResetContext` may come in between. What is read is any sequence of bytes, cut up
in any way; a call gets any destination, or none. Between two calls the program's
memory changes at will (`Used`), except where `lz4frame.h` asks to leave it alone
(`kept`): the dictionary of a frame, and, once `stableDst` was said, the last 64 KB
that came out. `hist` is what the frame format lets the next block refer to, kept
apart from where the context believes it to be, and `where` the addresses at which
the program was given it. The property is `ReadsInOrder`: the call takes and puts
out no more than it may (`WithinCall`), `tmpOutBuffer`, `tmpIn` and `header` are
never overrun (`inside`, `StoredInside`), and the end of the dictionary a block is
decoded with is `hist` (`HistoryKept`), in every stage before a block.

### Configurator (`JsonReader.tla`, `Configurator.tla`, `MCConfigurator.tla`)

Models `shared/json.h`, `configurator/config/Config.cpp` and `Configurator.cpp`.
A text is a sequence of symbols: the characters the reader looks for, each by
itself, and words of all others. `ClearString`, `FindPair`, the `Value` of each
kind and `Parse` cut texts as the code does, and `Locate`, `ReadConfig`,
`CreateConfig`, `CheckConfig`, `PackFiles` are the steps of `main`. `PackFiles` is
`ArchiveBuilder` seen from outside: any files are kept, and with none the
program crashes. `content` is what `Read` made of the file: all of it, or, as it
asks for nothing, a buffer with zeros where nothing came (`Whole`, `Broken`);
`ReadConfigThrows` is `file_size` without a file. Documents are made by `MCConfigurator` from what they should
say, and the properties compare what was read with that: `StringsSurvive`,
`FilesInOrder`, `OnlyIncompleteTerminates`, `OnlyAcceptedIsPacked`. Where the
reader does lose something, the property says of which texts or strings:
those with blanks, quotes or runs of backslashes (`Survives`), those whose
brackets are not paired in themselves (`Balanced`), tabs, and more than ten files.
Of these `StringsSurvive` says that they do get lost, and so does `FilesInOrder` of
more than ten files; the others are only excluded.

## Runs

| Run | Checks | Shows |
|---|---|---|
| `patcher_safety` | `TypeOK`, `BackupIntact`, `Accounted`, `BackupReleased`, `Replaces` | with every fault, over two starts, complete backups survive until restored, every finished file is right or was reported, and every step is one of `Replacement` |
| `patcher_recover` | `Recoverable`, `Terminates` | without I/O errors nothing of the user's is lost, wherever the run is killed, and every run ends |
| `patcher_delivers` | `Delivers` | the loop over intact frames would work, were `tmp` read from its start: every file is delivered, or, where text mode changes it, reported |
| `patcher_as_built` | `Delivers`, violated | `tmp` is at its end when it is read: nothing is delivered, and the first target is left empty |
| `patcher_failed_backup` | `Recoverable`, violated | that `copy_file` refused to make a backup is only logged, and the original then overwritten |
| `patcher_corrupt_block` | `Terminates`, violated | the wrong variable is tested for an error: the loop does not end |
| `archiver_layout` | `TypeOK`, `SlicesMatch`, `WellFormed`, `Faithful`, `Packs` | whatever fails, definitions lead to their bytes and belong to their files, text mode and refused files included; a text that was taken is well-formed and publishes what was kept |
| `bytes_all` | `TypeOK`, `OneByteSeen`, `ComputesCrc32OfPlain`, `BuffersFit`, `StreamIsOneShot`, `Portable`, `NothingOutside`, `Advances` | three machines that take bytes one after another, each while the others rest. CRC-32: a changed byte is noticed; text below 128, and everything where `char` is unsigned, gets its CRC-32. xxHash: pieces and byte order make no difference. Decoding: made-up blocks never leave the buffers, and each step gets on |
| `lz4_block` | `TypeOK`, `RoundTrip`, `Fits`, `SearchStaysInside`, `EndOfBlock`, `DecodesTheFormat` | every compressor against every decoder, alone and in chains, intact and damaged |
| `lz4_frames` | `TypeOK`, `StaysInside`, `GoodFramesAreRead`, `DamageIsFound`, `NeverStalls`, `HintsWithinFrame`, `IsByteStream`, `ReadsInOrder` | frames of every kind, in pieces of any size, one after the other on the same contexts, intact and damaged; and a program that reads two frames stage by stage, while the other two rest, with its history in the destination, in a dictionary and in `tmpOutBuffer` |
| `lz4_reset` | `GoodFramesAreRead`, violated | a frame of known size given up half way spoils the next one |
| `configurator_reads` | `TypeOK`, `StringsSurvive`, `FilesInOrder`, `OnlyIncompleteTerminates`, `OnlyAcceptedIsPacked` | what the config says is what is checked and packed, but for the strings and layouts the properties except; a file that did not come whole is not taken for a configuration |

The violated properties say what a comment, a message or a document of the
repository says; `findings` in `PROJECT.json` quotes it. Every other property
has a mutant, a plausible bug in a definition, that breaks it.

### Bounds

- *Patcher.* Two targets, archives of two to four entries: enough for a path that
  is named twice with another entry in between, and for an entry that fails
  followed by one that does not. Contents of at most two chunks, so that a
  content can be cut to nothing or to a part. `MaxRuns` = 2: a run over what an
  earlier one left; a third meets nothing new, as every set of paths, with
  backups from earlier patches or without, is an initial state already. The
  user's files all start with the same content `u`, which no good entry has:
  properties relate each file to its own backup and its own entry only. One chunk,
  `n`, is changed by text mode.
- *Packer.* Vectors of none and of three entries, in which a user path occurs
  twice, and any of the files may be missing; compressed sizes of 1 and 2 make
  offsets of neighbours differ, one content is refused and one is changed by text
  mode; `AddFiles` is called once, as `main` does
  (`MaxCalls`). The empty vector reaches `AddControlCrashes`.
- *Checksum.* The real width and polynomial; all contents of up to two of seven
  bytes, those of three of three bytes, and the nine digits of the usual test
  vector; pairs of all of them of one length. The state machine has no other
  choices.
- *xxHash.* 97 bytes that all differ, three stripes of `XXH64`, six of `XXH32`
  and one byte more, cut in every way; `Wrap` = 50 lets the length wrap while
  the flag for a long input has to stay.
- *Decoding.* Bytes and sizes as for blocks, below. 85 blocks: every half of a
  token full and not, short and long literal lengths, offsets near, far and
  beyond the history, cut off or long enough for the fast loop (`MCReceived`);
  rooms of 79 (the fast loop), 36 (the shortcut) and 11 bytes (`MCRooms`);
  partial decoding of 30 bytes and of all (`MCTargets`); streams just begun, with a
  short prefix, with almost a window and a dictionary besides, with a short one
  and a dictionary, and gone on with at another place (`MCContexts`).
- *Blocks.* Bytes 0 to 15, halves of a token to 3, a window of 36, so that
  lengths need further bytes and offsets leave the window within chunks of 18 and
  texts of 50 bytes; texts with runs, with near and far repeats and without any;
  two blocks on one context (`MaxBlocks`), enough for each way a second call can
  find the tables of a first; two dictionaries, one too short to be used; rings
  that force a return to the start; destinations of half the size and of the
  bound. `MaxOffset`, `GB1`, `HGB1` and `HGB2` stand for the 1 and 2 GB at which
  tables are rescaled. Six damages: literals, token, length, offset and end of a
  block.
- *Frames.* Nine values, a window of two, blocks of two or of eight, so that
  frames have up to five blocks and their history rolls over several times;
  headers, fields and checksums have their real sizes. Two frames on one pair of
  contexts (`MaxFrames`), reads of 0 to 19 bytes, room of 0 to 8; each byte of two
  frames, one with a checksum of the content and one with those of its blocks,
  changed by 1, 2, 128, 253 and 255, or the frame cut: the highest bit of a field
  flipped, and a size taken back to 0, are among these.
  The program of `Lz4FrameReading` reads a frame with three linked blocks, of six
  and two values compressed and seven stored, and one whose blocks are not linked;
  in pieces of 5 and 30 bytes, with no room, with room for two and for nine values,
  with a dictionary of three or none; all its other memory is overwritten between
  calls (`MCLeftovers`). A window of two is rolled over within each block, so that
  every branch of `LZ4F_updateDict` and both of the preservation at the end of a
  call are taken.
- *Configurator.* All pairs of four names and eight destinations; four layouts
  (none, a space, a new line, a tab) with a member that is not a string in two
  places; each key missing in turn; none, one, two, three, nine, ten, eleven
  and thirteen files; strings with each bracket, a quote, a colon or a comma, and
  with brackets paired and crossed, as name, as destination and at both places of a
  file, in front of another and behind one (`Odds`, `OddLists`). Of a file that
  does not come whole nothing comes, half, or all but the last symbol (`Broken`).

Deadlock checking is off where the programs end; `configurator_reads` keeps it,
with `Done` for the end.

### Fairness

`Terminates` and `Delivers` are checked under `FairSpec`, which adds
`WF_vars(Unpack)`: a process that can take its next step takes one. `Unpack` is
the disjunction of the program's own actions, sequential, never waiting for
anything but the operating system. Nothing is assumed about faults: `Kill` and
`Vanish` are never obliged to happen, and an error is only one of the outcomes an
operation may have. In `patcher_corrupt_block` the program is fair and busy, and
still does not end.

The library has no schedule of its own: a program calls it. Its progress is
therefore stated of each call (`NeverStalls`: one that has input and room does
something), not under an assumption about which calls a program makes.

## Proofs

TLAPS checks every proof with Z3, Zenon and LS4, without an axiom beyond the
named assumptions of the modules. They hold for every archive, every content, all
sizes, any number of runs, every block and every way to cut an input into pieces.

| Module | Theorem | States |
|---|---|---|
| `PatcherProofs` | `TypeCorrect` | `TypeOK` |
| | `BackupsKept` | `BackupIntact` |
| | `AllAccounted` | `Accounted` |
| | `ReleasedAfterRestore` | `BackupReleased` |
| | `NothingLost` | `Recoverable`, given that I/O does not fail |
| | `Implements` | `Replaces` |
| `ArchiveBuilderProofs` | `TypesKept` | `TypeOK` |
| | `SlicesFound` | `SlicesMatch`, given `CalledOnce` |
| `PackageProofs` | `TextWellFormed` | `WellFormed`, given `CalledOnce` |
| | `Implements` | `Packs`, given `CalledOnce` |
| | `NoneMixedUp` | `Faithful`, for one call of `AddFiles` |
| `Crc32Proofs` | `TypeCorrect` | `TypeOK` |
| | `OneByteDetected` | `OneByteSeen` |
| `Crc32StandardProofs` | `ComputesTheStandard` | `ComputesCrc32OfPlain` |
| `XxHashProofs` | `BuffersAlwaysFit` | `BuffersFit` |
| | `StreamsHashTheWhole` | `StreamIsOneShot` |
| | `EveryProcessorAgrees` | `Portable` |
| `Lz4DecodingProofs` | `DecodingStaysInside` | `NothingOutside` |
| | `DecodingAdvances` | `Advances` |
| `Lz4FrameReadingProofs` | `ReadsItsFrames` | `ReadsInOrder` |

*Patcher.* `BackupIntact` is not inductive: `Unlink` removes a backup, and only
where control is says that the target holds the same. `IInv` adds `AtEntry` (past
the head of the loop there is a current entry), `TargetOpen` (the target exists
from `OpenOut` to the check, so that writes to it touch no backup's path) and
`RestoredFirst` (at `Unlink` the target holds what the backup holds). The step
that carries the argument is that no write goes to a `.bal` path except where
none existed, which needs `BakAssumption`. `Accounted` and `BackupReleased`
follow with `IInv`. `Recoverable` needs `RInv`: as long as the process lives a
backup made in this run is whole (`WholeBackups`), and there is one before the
target is touched (`BackedUpFirst`). With `"io"` among the faults `BackUpRefused`
and `BackUpTorn` break both, as `patcher_failed_backup` shows of the former, so the
assumption `"io" \notin Faults` is needed and is the theorem's only one.

`Implements` maps every action to one of `Replacement` or to a stutter, with
`IInv` before and after the step. `BackupIntact` is what makes the copies that
are read from the disk those that `saved` remembers (`CopiesLemma`), so that a step
that leaves `saved` alone leaves the copies alone; `BakAssumption` makes writing
a backup invisible among the files (`SameFiles`); `RestoredFirst` makes `Unlink` a
`GiveBack`. Every fault is allowed: a backup that fails or is cut short is
`KeepNone`.

*Packer.* `TypesKept` needs that bytes are written only behind a declaration
(`Declared`). `SlicesFound` needs `LInv`: while files are added `data[]` is the
only declaration and exactly as long as `SizeOfData` says, so that the offset
`AddFile` notes is where its bytes go; and what is written behind a slice does
not move it (`AtKept`). All this is up to the first file that was refused or
whose definition was lost (`Exact`); those before it stay where they are. The
assumption `CalledOnce`, at most one call of `AddFiles`, is needed: a second one
declares another `data[]` and goes on with the offsets of the first.

`TextWellFormed` strengthens `LInv` by `TInv`: where the comma flag stands and
which sections are open at each point of `AddFiles`, and what `control[]` and
`archive[]` hold once they are written (`Adding`, `Totalling`, `Finished`). With
it `Implements` shows that each step is one of `Package` or a stutter: `AddFile`
appends one slice and leaves the others (`Keep`), a file that throws is left out,
and `Destroy`, which closes the last section, publishes. `NoneMixedUp` needs to
know where the files kept come from: `FInv` says that what is left is the end of
the job and that there is a strictly increasing map from the kept files to
positions of the job.

*Checksum.* Each step of the register can be undone, because the polynomial's top
bit is the bit that was shifted out (`StepLemma`); hence a byte keeps different
registers different, and different bytes make equal ones differ (`AbsorbLemma`).
`OneByteSeen` is inductive with `TypeOK` alone. Sign extension does no harm here:
it is injective (`ExtendedLemma`).

`ComputesTheStandard` holds for contents of every length. A message that is one
byte longer is the old one times x^8, plus that byte, so the loop and the division
have to be compared at every length at once. `IInv` says that the register,
read backwards, is what the long division leaves of what was taken so far. While a
byte goes in, the eight steps of `Eight` and the next eight eliminations keep them
mirror images of each other: `Step` shifts out the bit that the division
eliminates, and what it adds, `Poly`, is the generator without its top exponent,
read backwards (`Width`, from `StandardAssumption`, which TLC evaluates on the
code's constant). The division is a recursive function. That
it has one result (`OneDivision`), and that on a longer message it takes the same
steps eight exponents further up before it comes to the last eight
(`DivisionGrows`), are inductions over its length, done by looking at the smallest
counterexample, for which `WellFoundedInduction` has what is needed.

*xxHash.* The inductive invariant `Inv` says in closed form what a state holds
after `fed` bytes, however they came: the counts, what is buffered (the bytes
since the last whole stripe), and each lane's list of words, the stripes at its
place in the order of the content (`TakenInPiece`, `TakenMore`). An update that
fills the buffer takes the stripe that lies half in it and half in the input
(`FirstStripe`), then those of the input (`NextStripes`), and keeps the rest. The
digest's tail by words and bytes then reads what the hash in one call reads
(`Digest32`, `Digest64`). `large_len` stays right while the 32-bit count wraps
because an update of less than a stripe is seen to pass 16 before it can wrap,
which is `WrapAssumption` (`Large`); the code's 2^32 satisfies it.

*Decoding.* `NothingOutside` is not inductive: a copy by groups of 8, 16 or 32
bytes may write up to 31 bytes beyond what a sequence has, and only the room
that an earlier check left keeps them inside. `Sound` adds `Placed`, how much of
the block and of the output is left before each part of a sequence: 64 bytes of
output in the fast loop, 12 before a match unless the decoding is partial, two
bytes of the block before an offset, one before a token or a length. These are
what the code's assertions and comments say in passing. It also adds `HistoryHeld`: what
the call tells the decoder of its history is no more than the caller has, by
cases on how a stream goes on (`ContinuesSound`, `HasDictSound`). Each kind of
copy spares what is outside (`WildSpares`, `NearSpares`, `UsingOffsetSpares`) when
the room suffices, and each part of either loop hands on the room the next one
needs (`TokenInside` to `SafeSequenceInside`, `StepInside`). An offset that leaves a history
of less than a window is refused (`CheckedReaches`); beyond it no offset of two
bytes leads, which needs `SizesAssumption`. `Advances` compares the pointer
into the block, and the part of the sequence where that stands still.

*Frames.* `ReadsItsFrames` holds for every stream, intact or not, every way to cut
it up, every destination and dictionary, and every use of the memory in between.
`ReadingAssumption` says of the allocator that `tmpOutBuffer` neither overlaps a
buffer of the program nor begins where one of them ends: the code takes an address
equal to the end of its dictionary for a continuation of it, whichever buffer that
address is in. `HistoryKept` is far from inductive, because the history is in
different places in different stages and is copied between them in pieces. `IInv`
says where. It lies outside `tmpOutBuffer`, at addresses the program must not touch
or that this call has just filled (`Given`); or at the beginning of `tmpOutBuffer`
(`LinkedHistory`); or, while a block goes out that did not fit the destination, it
is the part of the block that is out already, behind as much of the older history
as is in front of `tmpOut` (`FlushHistory`, `InFront`). What came out in this call
is in the destination as well (`Recent`), which is what allows `LZ4F_updateDict` to
change over to it. That the copies stay inside needs the sizes the buffers were
allocated with, perhaps for another frame (`Allocated`), and what each stage has
stored and still asks for (`Storing`). The proof has a lemma for each branch of
`LZ4F_updateDict` and of the preservation, stated of any history (`Later`: its last
64 KB after some more came out); one for each stage, from which `TurnsStage`
follows; and one for each of the program's actions. Two things it makes exact:
while a block goes out in pieces `tmpOutBuffer` may hold less than the last 64 KB
(the code keeps in front of a block only what the block leaves of them), and they
are complete again only when the whole block is out, which is before the next is
decoded; and at the end of a call without `stableDst` the program owes the context
nothing, not even its dictionary, when blocks are linked and the frame has begun
(`Return`), but still does when they are not.

*Only model-checked:* liveness (`Terminates`, `Delivers`); that blocks come back
(`RoundTrip`, `DecodesTheFormat`), the compressors, the frame writer, that the
reader's text is the writer's (`IsByteStream` and its companions), and the
configurator: their loops and parsers are recursive operators over data, which the
provers can neither unfold nor do induction on. `Lz4Decoder` and `Lz4FrameReader`
are without them, so that the parts of the library that meet damaged input could
be proved about.

## Noticed

What the models are faithful to although a reader may expect otherwise. Those
that contradict the repository's own words are the violated runs; the others:

- *Packer.* It writes raw blocks (`archiver.cpp:42`), the patcher reads frames,
  so what it packs is not an entry the patcher can read; `Patcher` is checked
  with entries of both kinds. A file `LZ4_compress_default` refuses is packed with
  size 0 and one byte (`archiver.cpp:43`), which moves all later offsets; this is
  what `RefusedBefore` and `Exact` except. A file that cannot be
  read is left out and `main` reports success (`archiver.cpp:158`).
- *Text mode.* The patcher's output stream (`patcher.cpp:53`), the packer's input
  stream (`archiver.cpp:21`) and the configurator's (`json.h:401`) are opened
  without `std::ios::binary`. On Windows the first writes each 0x0A as two bytes,
  so that most files would come out wrong and be reported, even with `tmp` read
  from its start; the second joins 0x0D 0x0A and stops at 0x1A, leaving zeros at
  the end of what is packed, with a crc of just that; the third only puts zeros
  behind the text. `TextMode` and `Whole` are for this.
- *Checksum.* Where `char` is signed, bytes from 128 on are sign-extended
  (`archiver.cpp:86`): what is computed is then not the CRC-32 that
  `archiver.h:43` names, though both overloads agree and a changed byte is still
  seen.
- *Frames.* The checksum of a block does not cover the block's size. In a frame
  without a checksum of the content, flipping the bit that says "not compressed"
  puts the compressed bytes out as they are, and a size of 0 ends the frame, both
  told to be complete; `DamageIsFound` excepts just this. `LZ4F_getFrameInfo` between the header and the first block moves the
  reader on, after which `LZ4F_decompress_usingDict` no longer sets a dictionary;
  `GetInfo` is therefore not tried there for frames that need one. The size asked
  for next counts the checksum of a stored block twice, and before a skippable
  frame it may go beyond the frame. `LZ4F_readOpen` refuses files below 19 bytes,
  also intact ones, and `LZ4F_read` cannot tell a file that was cut off from one
  that ended; `DamageIsFound` is about `LZ4F_decompress`.
- *File writer.* On errors `lz4file.c` frees in places the wrong object or none
  (lines 82, 116, 209); allocation is not modelled.
- *JSON.* From the eleventh element on, arrays come in the order of their numbers
  as text. Brackets inside strings count: a path with `]` silently loses the files
  after it, and one with `}` ends the program by an uncaught "missing ]". Tabs are not removed, so a key after one is not found, and the
  exception of `at` leaves `main`. Blanks in strings disappear, runs of
  backslashes become one, escaped quotes end a string, and an empty string in an
  array is misread.
- *Rules.* `PathCheckRule` refuses only the names themselves: a directory below
  one of them passes.

## Not modelled

- *Library.* `LZ4_compress_HC_continue_destSize`, deprecated wrappers, version
  numbers and error names, allocation, failing or not, and freeing; the mixing
  of xxHash and its canonical forms; failing writes of the file writer.
- Memory: the reader of each entry, which the patcher never closes, and `tmp` on
  exceptions. That allocation fails is an outcome where it has one.
- Path lengths, the 256 bytes of `relative_path`, missing directories below
  `user_path` (creating a target then fails as under `"io"`).
- `Path::Append` of several parts, which only a test calls.
- Power loss and the order in which the operating system writes to the disk.
- Whether a C++ compiler accepts the initializers of `archive.h`: they are `0x80`
  and more in arrays of `char`, which some compilers refuse as narrowing.
- Console output, the query of admin rights, build and release scripts, the
  examples and the tests.
- `archiver::decompress`, which has no caller in the programs and keeps no state.

## Plan

Done: the patcher, the packer, the checksum, xxHash, the decoder of blocks and the
reader of frames, with their proofs; the abstract specifications of the patcher and the packer with
their refinements, proved; the configurator; the lz4 library's compressors, frames
and files. What is left, in this order:

1. Proofs about `Lz4FrameWriter`, whose loops would have to become steps as the
   reader's did; then `IsByteStream` from `ReadsItsFrames` and what the writer
   keeps of its own history.
2. Proofs about the packer with several calls of `AddFiles`, for which
   `SlicesMatch` must say which declaration a slice is in.
3. `Deployment`: the packer's text as the patcher's archive, through the frame
   reader of `Lz4File`, in place of the entries' parameters in `Patcher`.
4. `LZ4_compress_HC_continue_destSize`, and failing writes in `Lz4File`.

Abstract specifications come before the detailed ones they constrain; modules
that are to be proved about use functions and folds, not recursive operators.
