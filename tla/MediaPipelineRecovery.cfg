SPECIFICATION FairSpec
CONSTANTS
  photo = photo
  audio = audio
  jingle = jingle
  track = track
  post = post
  story = story
  u1 = u1
  u2 = u2
  Uploads = {photo}
  Sounds = {}
  S3Sounds = {}
  Moderatable = {photo}
  Passthrough = {}
  Content = {}
  Statuses = {}
  Uploader = {u1}
  NoMedia = NoMedia
  NoContent = NoContent
  MaxStalled <- CodeMaxStalled
  BatchSize = 50
  MaxFaults = 2
PROPERTIES
  StuckSettles
  UploadSettles
