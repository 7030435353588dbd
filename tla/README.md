# fake-linker: a TLA+ model of an editor of the Android linker

fake-linker is a native library that changes the dynamic linker of the process
it runs in.  It finds the linker's private symbols in the linker's own ELF
file, and from then on edits the linker's data in place: which library belongs
to which namespace, which libraries are global, what the relocations of loaded
libraries point at, what the entries of the JNI function table and of native
Java methods are.  None of this data was made to be edited by anyone but the
linker, most of it is shared with `dlopen` and `dlclose` on other threads, and
what a wrong edit breaks shows up much later.  That is what the modules here
are about.

Paths below are relative to `src/library/src/main/cpp/` unless they start with
`src/` or name an API comment in `include/fakelinker/fake_linker.h`
(`fake_linker.h`).

## 1. The system

| Component | Source | State | Operations | Here |
|---|---|---|---|---|
| Namespace membership | `linker/linker_globals.cpp`, `linker_namespaces.cpp`, `linker_export.cpp`, `linker_soinfo.cpp` | every namespace's soinfo list; every soinfo's primary namespace, secondary list and global flags; the cached vector of namespaces | add to global, remove from global, add to or remove from a namespace, move, create a namespace | `Namespaces`, `Visibility` |
| Global group below Android 6 | `linker/linker_globals.cpp:459-524` | the nine slots of `g_ld_preloads` | add, remove | `Preloads` |
| Block allocator | `linker/linker_block_allocator.*` | pages, the free list inside the free blocks, a count | alloc, free, purge | `BlockAllocator`, `Allocator` |
| Block lock | `linker/linker_common_types.*` | protection of the allocators' pages, a static count of open scopes | open a scope, close it | `BlockLock` |
| Linked lists | `linker/linked_list.h` | entries in allocator blocks, head, tail, a header from Android 13 on | push, pop, remove_if, clear | `LinkedLists`, `ElementList` |
| Page protection | `common/maps_util.cpp` | the mappings read from `/proc/self/maps`, old and new protection | unlock, recover | in `Relink` |
| Relinking | `linker/linker_globals.cpp:560-785`, `linker_soinfo.cpp:2255-2280, 2492-2570` | flags of a soinfo, `g_dl_mutex`, the result of the call | manual and system relink of lists of libraries | `Relink` |
| JNI hooks | `linker/art/hook_jni_native_interface_impl.cpp` | function table, entry points, backup locations, `kAccFastNative` | hook one, hook many, hook Java methods | `Hooks` |
| Initialisation | `linker/linker_main.cpp`, `linker_symbol.*` | four static flags, the pointers of `LinkerSymbol` | `init_fakelinker` | `Initialise` |
| Symbol lookup | `linker/linker_soinfo.cpp:375-520, 2279-2480, 2551-2764`, `linker_gnu_hash_neon.cpp` | the tables of each library, `FLAG_GNU_HASH`, `SymbolLookupList` with its count of slow entries | lookup by name and prefix, list of exported symbols, `soinfo_do_lookup` in a group | `SymbolLookup` |
| Dependency walk | `linker/linker_globals.cpp:390-457` | a work list and a visited list | local and global group | in `SymbolLookup` |
| ELF reader | `linker/elf_reader.cpp`, `common/maps_util.cpp:20-180` | which tables have been read or mapped; the load bias | load from disk or memory, find symbols, cache internal symbols | `Maps`, `ElfReader` |
| soinfo layouts | `linker/linker_soinfo.cpp:714-2190`, `linker_namespaces.cpp`, `linker_symbol.h` | the table of functions that read and write a soinfo, the one of namespaces, the symbols of the linker, each by Android version and ABI | fill the tables once; get and set a member | `LinkerTables`, `LinkerAccess` |
| Export table, Java entry | `linker/linker_export.cpp`, `FakeLinker.java` | - | the exported calls, with their version checks | `Layouts`, `ExportTable` |
| JNI tracing | `include/fakelinker/trace_jni.h`, `default_trace_jni.h`, `linker/art/trace_jni.cpp`, `jni_helper.cpp` | a copy of the JNI table, the registered functions, the monitored ranges, caches of descriptions; the env of each thread | register, start, add and remove ranges; a wrapper and a callback for every JNI function | `TraceTable`, `TraceJNI` |
| Owned buffers | `common/unique_memory.cpp`, `unique_fd.cpp` | pointer, size, origin | reset, release, move | in `ElfReader` (the mapping of a file) |
| Installer | `installer/hook_installer.cpp` | the file system | copy, remove | not modelled |
| XZ decoder, demos, emulator app, tests | `linker/xz`, `src/demo`, `src/emulator-testapp`, `src/fakelinker-test` | - | - | not modelled |

How they interact:

- *By call.*  The relinks read mappings and protection through Page
  protection; every edit of a namespace or of a list of namespaces goes through
  Linked lists, which take their entries from Block allocators, whose pages a
  Block lock has to have opened.  Everything needs the symbols that
  Initialisation finds, which reads them with an ELF reader; `SymbolItem::Get` ends
  the process when one is not there.  Everything reaches a soinfo or a namespace
  through the tables of soinfo layouts.
- *By a list handed over.*  A system relink gives `link_image` the global and the
  local group, from Android 11 on as a `SymbolLookupList`.
- *By shared state with the system linker.*  `dlopen` and `dlclose` on any
  thread use the same lists, pages and flags.  They hold `g_dl_mutex`; of
  fake-linker's calls only `ManualRelinkLibrary` and `SystemRelinkLibrary` take
  it.
- *By shared state with the program.*  A JNI function may be called between any
  two instructions of the call that hooks it.  A traced one runs the tracer's own
  JNI calls in the middle of the program's, on the program's env, its exceptions and
  its references.
- *By the mappings of the process.*  An ELF reader finds a library by the lines of
  `/proc/self/maps`, to which the mapping that another reader makes of the same file
  adds one.

What is hard here, and where it is looked at:

| Behaviour | Where |
|---|---|
| Two sides of one fact, edited by different calls (list of a namespace, namespaces of a soinfo), and an unload that trusts one of them | `Namespaces` |
| Edits in place of arrays and lists with duplicates, holes, header blocks | `Preloads`, `LinkedLists`, `BlockAllocator` |
| A count updated without a lock by threads that open and close write access | `BlockLock` |
| Several threads changing and restoring the protection of the same mapping; `mprotect` failing in the middle | `Relink` |
| A mutex held over many early returns | `Relink` (`CallsReturn`) |
| Hooks of several parties on one function, calls in the middle of hooking, registrations that fail | `Hooks` |
| A process-wide initialisation that may be called again after it failed, for other parts | `Initialise` |
| One call on fifteen Android versions and four ABIs, each with members and symbols of its own; null where a version has none | `Layouts` |
| Libraries found by text that another thread's mappings change; files that are stripped, damaged or compressed; tables that outlive the memory they point into | `ElfReader` |
| Callbacks that call the JVM while an exception is pending, in a critical region, or about references that have just been given back | `TraceJNI` |
| Tables that are only right together with a flag that another call clears; the end of a chain, of a bucket, of a circle of libraries | `SymbolLookup` |

`PROJECT.json` lists each hazard at its line with the properties that cover it.

## 2. The modules

`Visibility`, `Allocator` and `ElementList` are abstract specifications: what a
caller may rely on.  `LinkedLists` extends `BlockAllocator`, and `ExportTable`
composes `Layouts` and `ElfReader`.  `Sublists` has the one operator that the list and
its specification share.  Every `MCX` has the constants of the instances of `X`.

A proof module has the theorems of one component, which may be several modules:
`GlobalGroupProofs` those of `Namespaces` and `Preloads`, `LinkedListsProofs` of
`BlockAllocator` and `LinkedLists`, `JNIProofs` of `Hooks` and `TraceJNI`,
`ExportTableProofs` of everything `ExportTable` composes (`LinkerTables`, `LinkerAccess`,
`Layouts`, `Maps`, `ElfReader`); `BlockLockProofs`, `RelinkProofs`, `InitialiseProofs`
and `SymbolLookupProofs` those of the module they are named after.

### Namespaces (implements Visibility)

Android 7.0 and later.  `list[np]` is `soinfo_list_`; `primary` and `links` are
`primary_namespace_` and `secondary_namespaces_` (with copies, because
`push_back` keeps duplicates from Android 13 on, constant `DedupLinks`);
`dfGlobal` and `rtldGlobal` are the two global flags; `namespaces` is the cached
vector of `GetAllNamespace`.  Each exported call is one action.  `Load`, `Unload`
and what a namespace inherits when it is created are the system linker's and
marked external: `Unload` follows the *soinfo's* side only, as
`soinfo::remove_all_links` does.

`Spec` has every call.  `PairedSpec` leaves out the three that edit one side and
leave the other to the caller (`soinfo_remove_second_namespace`,
`android_namespace_add_soinfo`, and removal with `clear_global_flags`), because
after those `NoDanglingMember` does not hold.

`Visibility` knows only which library is seen in which namespace: an unload hides
it everywhere, a load at a reused address starts afresh, and a call edits the
library it was made for and no other.

### Preloads

Android 5.0 to 6.0: `g_ld_preloads`, nine slots, of which the linker reads those
before the first null one.  The loop of `RemoveGlobalSoinfo` is modelled slot by
slot (`RemoveMatch`, `RemoveShift`, `RemoveReturn`) with its variables `i` and
`index`.

### BlockAllocator (implements Allocator)

The free list as a sequence of runs of neighbouring blocks.  `Alloc` takes the
first block of the first run, and maps a page first when there is none.
`Counts` says whether the version has `allocated_` (Android 10 and later), which
`Purge` needs to know whether a block is in use.  `Allocator` says: a block is
given to one owner at a time, and stays mapped while it has one.

### BlockLock

Threads of the linker open the allocators' pages with a guard of their own, under
`g_dl_mutex`.  Threads of fake-linker open scopes of `LinkerBlockLock`; the
read-modify-write of `ref_count_` is two steps (`EnterRead`, `EnterWrite`), pages
are opened one allocator at a time, and the count wraps at `CountModulus`.

### LinkedLists (implements ElementList, over BlockAllocator)

`head`, `tail`, `next` and `element` as the code keeps them, plus `used`, the
blocks the allocator has given to this list.  A call takes or frees one block a
step: `push_front` and `push_back` first the header when there is none, `remove_if`
and `clear` entry by entry.  `header = NoHeader` is the older `LinkedList`; the other
initial state is `LinkedListT`, which takes one more block at its first push.  Other
lists take and free blocks of the same allocator and the linker purges it between any
two steps (`Others`), so that a block this list has freed and still followed would be
somebody else's.  The properties are those of both layers: `RefinesAllocator` of the
allocator's state, `RefinesElementList` of the list's, `WellLinked` of the two
together.  `ElementList` is a plain sequence.  The memory of a process has finitely
many pages (`LinkedListsAssumption`), so that what `next` leads through is finite.

### Relink

`ManualRelinkLibraries`, `SystemRelinkLibraries` and `HookJniNativeInterface` as
three kinds of calls of concurrent threads.  A call takes the names of its list
one after the other (`NextName`), takes `g_dl_mutex` (`Lock`), reads the mappings
of the library with their protection (`ReadMaps`), makes them writable one by one
(`UnlockPage`, `UnlockFails`), writes or hands each unlinked library of the local
group to `link_image`, and puts the old protection back (`RecoverPage`).  `was`
and `marked` are `old_protect` and the difference of `new_protect` from it.  Every
`mprotect`, relocation and `link_image` may fail.  `set_unlinked` clears all flags
of a soinfo, as the code does, and so `FLAG_NEW_SOINFO`.  On the 64-bit ABIs nothing
asks for that flag (`lp64`, chosen at the start).  On the others `has_min_version` does:
the library is `Lost`, its own namespace may refuse it, and the local group of it or of
another, which is computed after `set_unlinked`, may be shorter or empty.  `Group`
therefore gives a library's group for every set of lost libraries, and `Local` is the
group of the moment.  Over an empty one `visit` returns true, so `LinkDone` reports
success with nothing relocated: `relocated` is what `LinkImage` and `Write` have done,
and nothing else.

### Hooks

`entry` is what a call of a target runs, `backup` what a hook calls in turn.
`JniBackup` and `JniStore` are separate steps, since a thread may call the function
in between; so are `JavaBackup` and `Register`.  The loops over units are modelled
with the code's own counters, since they do not advance as one expects.  `Begin`
takes any array of `JniBatches` or `JavaBatches`; a unit that cannot be hooked is
`NoHook`.  `OriginalReachable` says that a call of a target gets to its original without
following the backups: a set of hooks that holds the one in the entry has one whose
backup is none of them, so that no circle of backups begins there.

### Initialise

`init_fakelinker` in its three parts.  `loaded` is the set of pointers of
`LinkerSymbol` that are set, `initSuccess`, `initialized`, `nativeReady` and
`registered` are the static flags, `code` the result.  `onDevice`, chosen at the
start, is the set of symbols this device's linker has; `needsField`, chosen with it, is
whether the device has Android R or later, where `InitArt` must find the field
`artMethod` (`artField`).  A call may end the process in two places: `LoadAborts`, a
symbol looked for through one that is not there, and `NativeAborts`, the `CHECK` of
`InitArt` (`hook_jni_native_interface_impl.cpp:111`).  `abort()` is `pc = "aborted"`,
after which the process starts again on the same device.

### SymbolLookup

Android 7.0 and later.  `process`, chosen at the start, holds what never changes: the
symbol and hash tables of the libraries (`image`), what they need (`children`), the kind
of ABI (`lp64`), and a namespace: its own libraries and those that are in it besides
(`primary`, `secondary`), the global ones (`global`), and those with `DT_SYMBOLIC`
(`symbolic`).  `WellFormed` says what the code takes for
granted in tables of a static linker: a GNU table is not empty and covers exactly what
the library defines for others, in the order of the buckets; a SysV list holds the
symbols of its bucket, later ones first.  The bloom filter is what a bloom filter
promises, so `BloomHolds` and `BucketBegins` are both possible for a name that is not
there.

`flag` is the set of libraries with `FLAG_GNU_HASH`, `newSoinfo` of those with
`FLAG_NEW_SOINFO`; `Relink` takes both from the root before the walk begins.  Two things
follow from `newSoinfo` through `HasMinVersion`, on the ABIs that are not 64-bit:
what the namespace can access (`near`, from `Accessible`), so that the walk may skip the
root itself and leave the group empty; and whether a lookup sees the version table of the
library (`versym`), without which every version fits (`VersionFits`).  `toVisit`,
`visited` and `group` are the lists of `walk_dependencies_tree` and
`GetSoinfoLocalGroup`, one action per library taken from `visit_list`.  `entries`, `slow` and `it` are `SymbolLookupList`,
`slow_path_count_` and the search's position in it.  A lookup, of a name in one
library or of a relocation in a list, goes symbol by symbol: `n` is the index in the
chain (`pc = "chain"`) or in the list of a SysV bucket (`"sysv"`).  `gnu_lookup` and
`soinfo_do_lookup_impl` walk the chain alike and differ in `Hit`, and in when they ask
for the version table: at the beginning of the bucket, or with the list.  `fault` is a read of
a table the library has not got.  `OtherRelink` is `set_unlinked` of another thread,
which a lookup that holds no lock may meet at any step.

The list itself goes to `link_image` of the linker; the search in it is modelled from
`soinfo_do_lookup`, the copy of the linker's that `linker_soinfo.cpp` has and only
`soinfo::relocate` uses.

### LinkerTables, LinkerAccess and Layouts

`LinkerTables` says which entries of the tables are set: `funTable` of soinfo by the
branches of its initialisation, `npTable` of namespaces, and the versions
(`min_api`, `max_api`) and category of every symbol of `LinkerSymbol`.
`LinkerAccess` says what each function of the library reads, writes or uses of these on
the paths that the version, the ABI and the library's flags leave open.  `Layouts`
makes each exported call one step: init fills the tables and loads the categories asked
for, and then a call either gets through, or ends in a null function (`lost`) or in the
abort of `SymbolItem::Get` (`missing`).

### Maps and ElfReader

`Maps` is `MapsHelper`: `Line` is what one line of the maps does to the search for a
library, and `ReadLibraryMap` the search after each line.  `ElfReader` follows a call
from the creation of its reader to its end (`find_library_symbol`,
`find_library_symbols`, `LinkerSymbol::LoadSymbol`): `LoadFromMemory`, then from disk
`ReadFormDisk`, `MapFile`, `ParseFile`, `DecompressDebugData`, each of which may fail
and leaves what it has done.  A table is *in* the file's mapping or in the decompressed
memory, and `mapped` says which of the two the reader still holds.  `OtherMaps` is
another thread's reader, which maps the file of the same library for a while.  A name is
a sequence of letters, a symbol's address its library's base plus a number; what a
defect of a header does is kept, what it looks like in bytes is not.  Where the code
reads memory that nobody has set, the answer is `Garbage`, or the call ends in `fault`.
In the dynamic section of a loaded library `DT_SYMTAB` is always there (section 5).

### ExportTable

Interleaves the two: `LinkerCall` and `ReaderStep`, on one device.  A reader reads
nothing a linker call changes, so it runs before `init_fakelinker`.

### TraceTable and TraceJNI

`TraceTable` lists every function of `JNINativeInterface`: which macro wraps it (whether
the callback runs before or after the original, and with which arguments), what the
callback reports of it, and whether `DefaultRegister` registers it.  Functions that
differ in a primitive type only are one.

`TraceJNI` runs them.  `at` says where a thread is: in the original, at the check of the
monitored ranges, or in the callback, which describes the values of `todo` one by one.
`table` and `guards` are the env's function table and the stack of `GuardJNIEnv`;
`pending`, `critical` and `live` are what the JVM knows of the thread; `left` is whether
an exception would be pending had nothing been traced, as the program expects.  `cache`,
`last` and `lastDesc` are the descriptions the callback keeps; they are shared by all
threads, and each of their reads and writes is a step.  The ranges are changed before
the trace starts, as the class comment asks.

## 3. What TLC checks

| Run | Distinct states | Properties | Question |
|---|---|---|---|
| `namespaces_paired` | 177 114 | `NoDanglingMember`, `RefinesVisibility`, `MovesHome` | Can the two sides of membership come apart, in any order of loads, unloads and calls? |
| `preloads` | 417 966 | `OthersKept`, `RemovedIsGone` | Does a removal ever lose another library, or leave the one it removes? |
| `block_lock` | 153 655 | `LinkerNeverFaults`, `LockedScopeNeverFaults` | Can fake-linker take write access from a linker call that needs it? |
| `lists` | 10 991 | `Partition`, `RefinesAllocator`, `WellLinked`, `RefinesElementList` | Can two owners share a block, or one get lost? Do edits in place keep the list a list? |
| `relink` | 2 874 081 | `WriteNeverFaults`, `LinkNeverFaults`, `ProtectionRestored` | Concurrent relinks and hooks on the same mappings, any failure |
| `relink_calls` | 474 060 | `TrueMeansRelocated`, `CallsReturn` | Lists of libraries: what does `true` mean, does a call always return? |
| `hooks` | 44 511 | `BackupReady`, `OriginalReachable`, `FastFlagKept` | Is a function callable at every step, and what is left of a failure? |
| `initialise` | 1 340 672 | `CompleteForFirst`, `AbortsOnlyInPart`, `NoStickyFailure`, `ZeroMeansReady` | Calls repeated after failures, for other parts |
| `symbol_lookup` | 480 986 | `LookupExact`, `FirstOfGroup`, `GroupInOrder`, `FaultsOnlyUnlinked`, `ListingExact`, `WalkEnds` | What does a name mean in a library and in a group, and when is a table read that is not there? |
| `trace` | 114 346 | `ReadsLive`, `ExceptionKept`, `NoCallInCritical`, `EnvRestored`, `MonitorExact` | Does a program notice that it is traced, by its exceptions, its env or its critical regions? Does the tracer look at something that is gone? |
| `exports` | 44 440 | `EveryCallServed`, `CategoriesSuffice`, `BaseIsLibrary`, `AddressIsSymbol`, `TablesAlive`, `ExactFirst` | Does every call find what it needs on every version and ABI? Is an address that a reader gives the symbol's? |

One run shows the program departing from what its text says.  `trace_threads_doc`
violates `OwnDescription`: a call is reported under the description of its own method.
`FormatMethodID` (`include/fakelinker/trace_jni.h:1268`) keeps the last method and its
description in two fields of the one callback object, without a lock; after two threads
have filled them, the method can be of one and the description of the other.  The class
comment says "JNI callbacks use independent Context instances to achieve thread safety"
(`trace_jni.h:1228`).

Several properties name an exception, which is a departure of its own: `EveryCallServed`
(`android_namespace_create` below Android 7), `CategoriesSuffice`
(`set_ld_debug_verbosity` on Android 15), `AddressIsSymbol` (undefined symbols at the
load bias, libraries whose lowest address is not 0), `TablesAlive` (damaged
`.gnu_debugdata`), `BaseIsLibrary` (a copy before the library), `AbortsOnlyInPart` (the
two places where a call may be aborted).  Four name what `set_unlinked` does on an ABI
that is not 64-bit: `TrueMeansRelocated` (a system relink of a library its namespace no
longer reaches succeeds with nothing relocated), `LookupExact` and `FirstOfGroup` (a
library that has been relinked gives an old version for a current one), `GroupInOrder`
(the group may be empty).  On the 64-bit ABIs they hold without the exception.  Section 6
has them with their lines.

### Bounds, and why they are enough

- `namespaces_paired`: the executable and one library that comes and goes, the
  default namespace and one that is created, two copies of a namespace in a
  secondary list.  The calls touch one soinfo each and only `namespaces` and the set
  of existing namespaces tie libraries together; a library that arrives late, leaves
  early or is reborn at the same address needs one address.  The theorems have no
  such bound.
- `preloads`: three libraries in the real nine slots, so the array can be full of
  duplicates; every content of nine slots that calls can produce is reached.
- `block_lock`: two threads, two allocators (one may be open and the other not yet),
  two scopes open in each, a count modulo 8, which is more than the four scopes that
  can be open, and wraps below zero when increments get lost.
- `lists`: two pages of two blocks, three elements: a header and up to three entries,
  duplicates, removal of any subset of the elements, runs of the free list that are
  split or followed by runs of the other page.  `mmap` does not fail (`Room`): a push
  happens only while there is a block or a page.  The theorems about the allocator have
  pages of any size.
- `relink`: two threads; a library `art` with the JNI table in one mapping and data
  that is writable anyway in another, and a library `app` that depends on it with two
  read-only mappings; lists of one name.  `relink_calls`: lists of two names, one
  mapping each, the libraries in different namespaces, for the results and for
  liveness.  Both have either kind of ABI.  Without `FLAG_NEW_SOINFO` a library's group
  is empty in `relink_calls`, where each is alone in its namespace; in `relink` that of
  `app` is, and that of `art` once `app`, which needs it, has lost the flag too.
- `hooks`: two JNI functions, the first with two hooks; a fast, a plain native and a
  non-native Java method, the first with two hooks, one of which registers with `!`;
  every array of one or two units; API level 27, where both treatments of
  `kAccFastNative` are in force.  Hooks are put on a target in any order but no hook
  twice after another went over it (`FreshSpec`), since that leads to two hooks that
  call each other (section 6).
- `initialise`: one symbol of every kind (required internal, required library,
  exported ones in two categories), all sets of symbols a device may have, before
  Android R and from it on.
- `symbol_lookup`: four libraries; three names, two of which share a hash and a bucket
  of the GNU table, the third one of the SysV table; images with a GNU table only, with
  both and with a SysV table only, with imports in front, a hidden and a weak symbol, a
  local one, an old and a current version of one name, an empty last bucket; a diamond
  with two circles, and a chain that leads back to its start, with and without a link
  that the namespace cannot access; with global libraries and `DT_SYMBOLIC` ones.  The
  diamond is on a 64-bit ABI, the whole chain on a 32-bit one, where a library stays
  accessible as long as one that needs it has the flag, and the chain in a namespace whose
  root nobody there needs on both: its group is the root's or empty.  A
  lookup reads one library at a time, so that what a second image adds is its place in
  the list; the theorems have no bound.
- `trace`: one thread and every function but `FatalError` (which does not return),
  called from inside the range and outside; two methods and a field; the ranges are
  added and removed in any order and mode before a trace starts with one set of them
  (`Started`); the functions of `DefaultRegister`, and six that it leaves out
  (`DeleteLocalRef`, `PopLocalFrame` and such) registered beside them.  What one thread does to its
  own exceptions, references and env does not depend on others; what threads share are
  the caches, which `trace_threads_doc` has two threads for.
- `exports`: the versions from 5.0 to 15 and the four ABIs as they are, every set of
  categories, every combination of the two library formats.  The readers run on two
  versions (before and after Android 8's header checks; `LoadSymbol`'s names depend on
  Android 14) over nine libraries: with either hash table or both, with a Bloom filter of one
  word, with and without `DT_JMPREL`, with
  a lowest address that is not 0, stripped, with tables only in `.gnu_debugdata`, with a
  damaged one, with one table out of range, with bad headers; one whose lines are torn,
  and two without executable pages, as ARM libraries have under an emulator, of which one
  is last in the maps.  A name is defined, imported, or the beginning of another.
  Another thread's copy may lie in front of a library or of another one.

### Fairness

Only `CallsReturn` and `WalkEnds` need any.  In `Relink`, `FairSpec` assumes that a thread inside a call keeps
running (`WF` of its steps: nothing in a call waits except `pthread_mutex_lock`), and
that a thread that asks for `g_dl_mutex` again and again while it is given back again
and again gets it (`SF` of `Lock`: bionic's mutex wakes its waiters; the holder's own
steps are weakly fair).  Calls are never forced to begin.  In `SymbolLookup` it assumes that the
thread that relinks, which holds `g_dl_mutex` and waits for nothing, keeps running
(`WF` of its steps); of lookups on other threads it assumes nothing.  All other
properties are checked and proved without fairness.  `TraceJNI` and `ExportTable` state
none: nothing in them waits.

Deadlock is checked in every run but `symbol_lookup`, where a process that has faulted
stops.

## 4. What is proved

The theorems hold for every value of the constants that satisfies the module's
assumptions (`NamespacesAssumption` and so on, each a condition such as "the
executable is a soinfo" or "a mapping belongs to one library").

| Module | Theorems | Argument |
|---|---|---|
| `GlobalGroupProofs` (`Namespaces`) | `TypeCorrect` and `MovesHomeCorrect` for `Spec`; `NoDanglingMemberCorrect` and `RefinesVisibilityCorrect` for `PairedSpec` | `MembershipInv` = types, `NoDanglingMember`, and `KnownNamespaces`: nothing refers to a namespace the linker has not created, so a new one starts with an empty list.  The refinement rests on `EditsOneLibrary`. |
| `GlobalGroupProofs` (`Preloads`) | `ArrayTypeCorrect`, `OthersKeptCorrect`, `RemovedIsGoneCorrect` | `IndexIsSpare`: every other library has a copy outside the slot `index` points at, so the next shift may overwrite it.  `LoopInv`: the slots the loop has passed are free of the library, those ahead are as they were. |
| `LinkedListsProofs` (`BlockAllocator`) | types, `Partition`, `CountExact`, `RefinesAllocator`, for the versions that count | `Inv` states all of them at once over the runs of the free list; lemmas `ConsRun`, `SplitRun`, `FirstTaken` say what taking from and adding to the list does to the blocks it covers. |
| `LinkedListsProofs` (`LinkedLists`) | `WellLinked`, `RefinesElementList`, for the versions that count | `ListInv`: *some* sequence `q` of blocks `Represents` the list: its neighbours are linked by `next`, its blocks and the header are the ones given to the list, `tail` is its last, and `p`, `e` stand on neighbours of it.  Every step gives the next `q`; that no other owner touches its blocks is `Partition`.  `WellLinked` and the refinement then follow because `next`, followed from `head`, yields just `q` (`ReachedIs`, `ContentsAre`).  `remove_if` is one step of the specification and goes entry by entry in the code: `Shows` says that none of the entries the cursor has passed holds an element to remove, so that the list without those elements (`Shown`) is what the specification has from the first step to the last (`WithoutIs`, `CutLeaves`). |
| `BlockLockProofs` | types, `LinkerNeverFaults`, `LockedScopeNeverFaults` | `Exclusive`: who holds a guard or a locked scope holds the mutex, and there is one holder.  `WritableInv`: pools below the opener's counter are open, and nobody but the linker's own `ClosePool` closes any.  The count does not occur in the argument at all: it may be anything. |
| `RelinkProofs` | types, `WriteNeverFaults`, `LinkNeverFaults`, `ProtectionRestored`, `TrueMeansRelocated` | `IInv`, for any number of threads, libraries and mappings: `MutexInv` (the mutex is held by the thread that is between `Lock` and the end of its library), `PagesInv` (a helper describes the mappings of the library it was made for), `WriteInv` (the pages a helper has passed are writable), `LinkInv` (a library without its linked flag is being relinked or was given up), `RestoreInv` (a mapping that is writable beyond its time is marked in a helper that will still put it back, and every helper knows which mappings were writable at first) with `PassedUnmarked`, `RootInv` (the library a system relink works on is not marked as linked before the loop ends, and is the first of its group, so the loop relocates it unless the group is empty) and `ResultInv` (a call that is still successful has relocated the names it has passed, or left one that is `Unreachable`: `FLAG_NEW_SOINFO` is never given back, so what is lost stays so, `LostGrows`). |
| `JNIProofs` (`Hooks`) | types, `BackupReady`, `FastFlagKept`; `OriginalReachable` for `FreshSpec` | `EntryInv`: a hook that is in an entry is written for it and has a non-null backup; `LoopInv`: the loops stay in the array, and a unit about to be put in place has its backup already; `FastInv`: between `JavaBackup` and the registration one method may lack its flag, and `restore` says whether it had it.  `ChainInv`: a hook still to be put in place is nobody's backup, unless it is the one in its entry; so the step that puts it in front of a chain closes no circle. |
| `JNIProofs` (`TraceJNI`) | `ReadsLive`, `ExceptionKept`, `NoCallInCritical`, `EnvRestored`, `MonitorExact` | `CallInv`, for any threads: `TodoInv` (what is left to describe is of the kinds the function reports), `GuardInv` (of any number of nested guards only the first has saved the table, and there are guards exactly while the callback asks the JVM), `ExceptionInv` (in the strict mode the pending exception is the one the program would have), `CriticalInv`, `LiveInv` (only `PopLocalFrame` is reported after it has ended something).  `RangesInv`: `monitors_` is the ranges in force.  `NoCallInCritical` supposes that `GetStringCritical` and `ReleaseStringCritical` are not traced, as `DefaultRegister` leaves them. |
| `InitialiseProofs` | types, `CompleteForFirst`, `AbortsOnlyInPart`, `NoStickyFailure`, `ZeroMeansReady` | `IInv`: a call that has passed a part has that part ready, and success means that `solist` is loaded; `AbortsOnlyInPart` needs the former for an abort in the native part.  `CompleteForFirst` is inductive on the types: the step that sets `init_success` looks for everything selected, and no step after it looks again.  `NoStickyFailure` needs no invariant: every step that returns an error has failed itself or has no `JNIEnv`. |
| `SymbolLookupProofs` | types, `LookupExact`, `FirstOfGroup`, `FaultsOnlyUnlinked`, `ListingExact`, `GroupInOrder` | `Inv`, for any hash functions, tables and dependencies: `TableInv` (a GNU entry is of a library with that table, and a walk is in a library that has the table it walks), `VersymInv` (a lookup in a list sees the version table exactly if the library has it now, one that holds no lock may have seen it before a relink took it away), `ChainInv` (`n` is in the bucket of the name, and everything that is wanted is at `n` or behind), `SysvInv` (the same downwards), `ListInv` (the entries behind the search offer nothing).  `BucketEnd`: what is behind the end of a bucket is not in it.  `ChainOffered`: `gnu_lookup` needs no test whether a symbol is defined, since the table covers only such.  `FastPath`: with a count of 0 every entry has a GNU table.  `ListingExact`: the loop begins at or before the first bucket that holds a symbol, and ends at the end of the whole table if the last bucket holds one.  `WalkInv`: the entries of `visit_list` stand in the order of the libraries that need them (`Ordered`), what a visited library needs has been visited or is on the list for it (`Awaited`), and what is to come is needed by no earlier library than what has come (`Following`): a queue keeps the order of first reasons, circles or not. |
| `ExportTableProofs` (`Maps`, `ElfReader`) | `ReaderTypeCorrect`, `BaseIsLibrary`, `AddressIsSymbol`, `TablesAlive`, `ExactFirst` | `ReaderInv`, for any lines of the maps and any libraries: `PhaseInv` (which fields a phase may have set), `BiasInv` (when the load bias is the base less the lowest address, and whose library it is), `TablesInv` (where a table lies and whether that is still mapped, phase by phase), `CacheInv`; `AnswersInv` says of each answer from which table it came.  Below `BaseIsLibrary` are an induction over the lines (`Scanned`: what the search has collected is a run of lines of one file) and the place of the other thread's copy among them (`Spot`, `FoundInMaps`). |
| `ExportTableProofs` (`Layouts`) | `EveryCallServed`, `CategoriesSuffice` | `LayoutInv`.  `Members`, `Writable` and `MembersOfNamespace` say from which version on a layout has what; `FineSoinfo`, `FineLookups`, `FineProcess` and `FineEdits` follow the functions of `LinkerAccess` from the members they read to the calls; a call that `Serves` finds its functions, and its symbols once its categories are loaded. |

Every property a run checks is also a theorem, but for two: `CallsReturn` and `WalkEnds`
are liveness under fairness, which the prover does not handle, and are only
model-checked.  The runs leave out what only the theorems state: `TypeOK` of each module
(`ReaderTypeOK`, `ArrayTypeOK`), and `CountExact` (a page's `allocated_` is the number of
its blocks in use), which is part of the allocator's invariant.

A theorem is about the specification its run has: `PairedSpec` and `FreshSpec` leave out
the same calls in the proofs, `TraceJNI`'s program behaves as it must, the allocator and
what rests on it are proved for `Counts` (Android 10 and later), and libraries in memory
are `WellFormed`.  The theorems about `Layouts` add the argument and no instance: the run
has every version, ABI and set of categories already.

Where a definition is recursive (`Reached`, `Without`, `ReadLibraryMap`) it is a
recursive *function*; what it computes is proved by induction over the natural numbers,
from the set of numbers for which it holds (`NatIsInductive`).

## 5. Assumptions about the surroundings

- A library that a call works on stays loaded during it (`Relink`), and callers pass
  soinfos and namespaces that exist.
- One thread at a time edits namespaces, preloads and lists, and one thread hooks or
  initialises: these calls take no lock and no text promises that they may overlap.
  Threads *are* modelled where the code or the linker does order them or tries to:
  `BlockLock`, `Relink`, and the callers of functions that are being hooked.
- A local group is empty or begins with its root, is not empty as long as the root has
  `FLAG_NEW_SOINFO`, and stays empty when more libraries lose that flag
  (`RelinkAssumption`).  `SymbolLookup` shows the first two of the walk that computes it
  (`GroupInOrder`); the third follows from `Accessible`, which only loses by a lost flag.
- The system linker behaves as `src/` relies on (`Load`, `Unload`, guards under
  `g_dl_mutex`); these actions are marked external in `PROJECT.json`.

- Libraries the linker has loaded have well-formed tables (`WellFormed`), and lookups are
  not traced.  Of the files `ElfReader` opens this is not assumed.  A library that
  is in memory has been loaded by the linker, which accepts none without `DT_SYMTAB`.
- There is one tracer, used as its documentation says: `InitTrace`, then the ranges, then
  the functions, each hooked once.  The program itself uses JNI as it must: no call but
  the permitted ones while an exception is pending or in a critical region.

## 6. Observations without a run

Read off the code while modelling; each is in the models as the code has it, named in
a property as an exception, or outside what is modelled (section 5, section 7).

Namespaces, lists, allocators:

- Removal with `clear_global_flags` (`linker_globals.cpp:146-161`) unlists the library
  from one namespace only and sets `RTLD_GLOBAL` while it clears `DF_1_GLOBAL`;
  `fake_linker.h:579-580` says it "will not take effect in other android namespaces".
- `AddSoinfoToGlobal` does not reach a namespace that is no library's primary one yet,
  against the comment "Need to add soinfo to all namespaces" (`linker_globals.cpp:462`).
- Below Android 6, adding to a full array does nothing and returns `true`; a library
  behind a null slot is not removed and the call returns `true`.
- Below Android 10 `purge` has no count to test and unmaps pages whose blocks are in
  use; `linker_block_allocator.h:25` says "if all previously allocated blocks have
  been freed".
- A library added to a full `g_ld_preloads` (`linker_globals.cpp:485`), a `dlopen` that
  walks the array between two steps of a removal (`:517`), and a soinfo that
  `FindSoinfoByName` returns before the mutex is taken (`:678`) are hazards no property
  is about.
- The allocators are the linker's own and have no lock (`linker_block_allocator.cpp:63`):
  a call of fake-linker without `g_dl_mutex` can take the first free block together with
  a `dlopen` on another thread; an unlocked scope may find the pages closed again
  (`linker_common_types.cpp:52`); a reader on another thread may stand on a list entry that
  is being freed (`linked_list.h:377`).
- `android_namespace_get_all_soinfo` counts a namespace's libraries and then walks them
  (`linker_export.cpp:442`): a `dlopen` in between makes the two differ.
- `soinfo::add_child` pushes both ends to `get_parents()` (`linker_soinfo.cpp:2221`); it has
  no caller.

Hooks and initialisation:

- The batch loop of `HookJniNativeInterfaces` (`hook_jni_native_interface_impl.cpp:80`) stays
  on a unit that is skipped until its count has run out; the units behind it are not
  hooked.  `fake_linker.h:758` gives the number of hooks as the result of all of them.
- Hooking a function with f, then g, then f again makes f and g call each other for
  ever (`hook_jni_native_interface_impl.cpp:82-86` tests the current entry only).
- `init_success` is one flag for all categories: once reached with a few, calls for
  the rest return 0 without looking for them, and their `Get()` aborts.
- With both Java bits set a failure to register the default class returns 0, although
  the forced one (`fake_linker.h:879`) wants a success.
- A second Java registration with another class name returns 0 and does nothing.
- `DefaultInitJniFunctionOffset` that fails after `RegisterNatives` leaves
  `nativeFinishInit` replaced by a function that aborts.
- On Android R and later `InitArt` ends the process when the field `artMethod` is not found
  (`CHECK`, `hook_jni_native_interface_impl.cpp:111`), in a call with any categories and
  without an error code; where the native hook fails otherwise the result is 3.
- `HookJniNativeInterface` writes the function it has backed up to its log through
  `backup_method` (`hook_jni_native_interface_impl.cpp:53`) even when the caller has passed
  null for it, which the line before the store allows for.
- On Android 8.0 and later `kInitLinkerNamespace` alone ends the process:
  `create_namespaceO` is looked for through `linker_soinfo` (`linker_symbol.cpp:83`),
  which that selection leaves out; `fake_linker.h:893` says "Initialize only linker
  namespace symbols".  `AbortsOnlyInPart` is what holds instead.

Relinking and symbols:

- `set_unlinked` (`linker_soinfo.cpp:2275`) uses `!` where `~` is meant, which clears every
  flag of the soinfo, `FLAG_GNU_HASH` among them.
- Since `set_unlinked` clears `FLAG_GNU_HASH`, a library without `DT_HASH` can no longer
  be looked into after a system relink, neither by fake-linker nor by the lookup list
  the relink itself builds (`FaultsOnlyUnlinked`: `fault` is reachable, and there only).
- `set_unlinked` also clears `FLAG_NEW_SOINFO`, for which `has_min_version` asks on the
  32-bit ABIs (`linker_soinfo.cpp:2193-2194`; `__work_around_b_24465209__` is defined there,
  `CMakeLists.txt:120-124`).  From then on `get_versym_table` (`:2203`) is null and
  `check_symbol_version` (`:375-377`) accepts any version of the library's symbols; and
  `is_accessible` (`linker_namespaces.cpp:359`) refuses the library unless another of the
  namespace needs it.  `SystemRelinkLibrary` calls `set_unlinked`
  (`linker_globals.cpp:747`) before `GetSoinfoLocalGroup` (`:581`), so the root may be skipped:
  the group is empty, `visit` over it returns true (`linked_list.h:141-148`), and the relink
  marks the library as linked and returns true with nothing relocated.
- A library whose last GNU bucket is empty is listed from index 0 of `gnu_chain()`,
  which lies before the chain's first entry (`linker_soinfo.cpp:2421`); one whose first
  bucket is empty from symbol 0, which is harmless.  The comment there says
  "max(bucket)".  The loops run while `i <= end`, and `nchain()` is the number of
  symbols, so a SysV library is read one symbol too far.  Weak symbols are not listed.
- `elf_lookup` tests `is_symbol_global_and_defined`; `linker_soinfo.h:520` says
  "ELF hash can find imported symbols".
- `soinfo::relocate` (`linker_relocate.cpp`) has no caller.

ELF reader (`linker/elf_reader.cpp` unless named):

- The loop that sorts the answers of `find_library_symbols` counts up from the last unit
  (`linker_export.cpp:736`) and leaves the arrays; `fake_linker.h:817` says "Returns the
  resolved address of each symbol or 0".  Internal symbols are looked up with
  `FindImportSymbols` (`:732`), and with exports alone the library is not loaded
  (`exports.empty()`, `:724`).
- `ReadLibraryMap` forgets a library without a readable and executable mapping when the
  next file follows (`maps_util.cpp:98-107`), although `VerifyLibraryMap` (`:389-391`)
  accepts it: "ARM libraries found under emulator have no executable permissions".  Only as
  the last file in the maps is it found.  The line that ends a candidate is not itself
  considered as a beginning.  A mapping of the same file that another reader has made
  right before the library is taken for its first page, and its base is wrong (`hidden`).
- `LoadFromDisk` sets `load_bias_` to the base (`:338`) after `LoadFromMemory` has set it to
  the base less `p_vaddr` (`:972`): lookups through both are wrong by the lowest address
  of the library.
- An undefined symbol is answered with the load bias by a SysV table and from the file.
- `plt_rel_` and `plt_rel_count_` are read without having been set when there is no
  `DT_JMPREL` (`:596`, `:648`).
- `symtab_`, which the test for a missing `DT_SYMTAB` reads (`:1373`), is not set by the
  constructor (`:228-231`).
- In a batch a name asked for again takes the next slot or symbol, and mostly none.  A
  Bloom filter of one word is taken for no hash table (`:627`: `gnu_maskwords_` is one less).
- `.gnu_debugdata` that is damaged behind its headers leaves tables in the decompressed
  memory next to those of the file (`:427`).
- A reader whose disk load has failed never retries it (`:329-331`).
- The arms of `find_prefix` in `SymbolFinder` (`linker_symbol.cpp:80`) are the wrong way
  round; `ExactFirst` is what holds nevertheless.
- `LoadFromMemory` reads the headers of a library after it has closed the maps; a `dlclose`
  in between unmaps them.
- `Read`, `Load`, `FindInternalSymbols` and the search by regular expression have no caller.

Layouts:

- `android_namespace_create` has no `CHECK_API` (`linker_export.cpp:424`): below Android 7 it
  goes through a function that is null.
- `g_ld_debug_verbosity` is annotated `ANDROID_LE_U` and gets a `min_api`
  (`linker_symbol.h:113`), so it is looked for on Android 15, where the linker no longer has
  it, and `SymbolItem::Get` aborts.
- `soinfo_minimum_size` has no caller.

Tracing (`include/fakelinker/trace_jni.h`):

- `InitTrace` after hooking, or a second tracer, copies wrappers into `backup_jni` (`:1062`),
  which then call themselves; a second `StartTrace` overwrites `monitor` and `callback`
  (`:1097-1099`) under calls that are going on.
- `GetShortField` is wrapped and reported, and `DefaultRegister` does not register it.
- Without the strict mode the tracer clears the program's pending exception and gives null
  to the JVM.  The run has the strict mode.
- `GetStringCritical` is reported with JNI calls inside the critical region; `DefaultRegister`
  leaves it out, and so does the run.
- Ranges that overlap hide each other (`IsMonitoring` looks at the nearest start only,
  `:1164`), a range with the start of another replaces it, the end is inclusive, and the
  exclude mode monitors nothing at all (`:1170`).  `MonitorExact` says for which ranges the
  answer is that of the set.
- A failed hook clears the offsets to hook (`:1108`), so it cannot be repeated.
- `ClearCache` frees the text `last_method_desc_` points at (`:1335`); the text of a failure
  to describe a method is cached like a description; the `std::map`s of the cache are
  changed by all threads without a lock.
- `GetClassName` and `GetMethodName` leak the local reference of the name
  (`jni_helper.cpp:53`, `:74`).

Installer (not modelled): a failing step leaves what the earlier ones have done.

## 7. Plan

Done, in this order: Namespaces with Visibility; Preloads; BlockAllocator with
Allocator; BlockLock; Relink; Hooks; Initialise; SymbolLookup with the dependency walk;
LinkedLists composed with BlockAllocator; TraceJNI; Layouts; ElfReader; ExportTable.

Next:

1. `Relocation`: which symbols of a manual relink match (`process_relocation` in
   `linker_relocate.cpp`, filters, weak symbols), composed with `Relink`'s write step, and
   the theorem that a relocated slot has the address of the filter's symbol.
2. `OwnedBuffers` and `Installer`: ownership over moves and resets; which files are
   left when a step of an installation fails.
3. Threads in `Namespaces`: `GetAllNamespace`'s cached vector while a `dlopen` creates
   namespaces; readers of a list during `remove_if`.
4. An abstract specification of a group's order (nearest first, each reachable library
   once) that `SymbolLookup` implements, from `WalkInv`.

### Not modelled

- The struct definitions in `linker_soinfo.h`: offsets of fields, data without behaviour.
- Paths, whitelists and links of namespaces other than which members they need.
- `Read`, `Load` and the segment mapping behind them in `elf_reader.cpp`, and
  `soinfo::relocate`: they have no caller.
- Regular expressions, the text of log messages and of trace reports.
- The XZ decoder (vendored), the NEON variant of the hash (same function), demos, the
  emulator app, the test harness.
